---- MODULE Spec2Model ----
(***************************************************************************)
(* Model of the catalog ingestion pipeline of polyspectra-3d               *)
(* (src/services/geminiService.ts): the acquisition strategy chain         *)
(* fetchJsonRobust, the response decoder findArrayInObject and the record  *)
(* loop of fetchPolymakerData with its two callbacks.                      *)
(*                                                                         *)
(* JavaScript values are tagged records: [t |-> "undef"], [t |-> "null"],  *)
(* [t |-> "str", s |-> chars], [t |-> "num", s |-> decimal text],          *)
(* [t |-> "text", segs |-> segments] (a response body held as a string),   *)
(* [t |-> "arr", a |-> elements] and                                       *)
(* [t |-> "obj", keys |-> own keys in Object.values order, val |-> map].   *)
(* A string is a tuple of one-character strings.                           *)
(***************************************************************************)
EXTENDS Integers, Sequences, FiniteSets, TLC

\* ------------------------------------------------------------------
\* Bounds of the model
\* ------------------------------------------------------------------

\* Longest record list a response carries as a bare array.
MaxItems == 3

\* Longest record list a response carries under a key or as a dictionary.
MaxWrapped == 1

\* Most members of a node whose display color is computed.
MaxMembers == 4

\* Most entries of the collection handed to the clustering.
MaxEntries == 3

\* Most records of one kind in a row in the long record lists.
MaxRecords == 21

\* Most ingestion runs started, and most runs of the effect of the initial
\* load, in the model of the runs.
MaxStarts == 3

MaxEffects == 2

\* Most calls of setTimeout in the model of the hover.
MaxTimers == 4

\* ------------------------------------------------------------------
\* JavaScript values
\* ------------------------------------------------------------------

Undefined == [t |-> "undef"]

JNull == [t |-> "null"]

JStr(chars) == [t |-> "str", s |-> chars]

JNum(text) == [t |-> "num", s |-> text]

JText(segs) == [t |-> "text", segs |-> segs]

JArr(elems) == [t |-> "arr", a |-> elems]

JObj(keys, val) == [t |-> "obj", keys |-> keys, val |-> val]

\* JavaScript truthiness of a value (the operand test of ||, ?: and if).
Truthy(v) ==
  CASE v.t = "undef" -> FALSE
    [] v.t = "null" -> FALSE
    [] v.t = "str" -> v.s # <<>>
    [] v.t = "num" -> v.s # <<"0">>
    [] v.t = "text" -> v.segs # <<>>
    [] OTHER -> TRUE

\* a || b || ... : the first truthy operand, else the last one.
RECURSIVE OrChain(_)
OrChain(vs) ==
  IF Len(vs) = 1 \/ Truthy(Head(vs)) THEN Head(vs) ELSE OrChain(Tail(vs))

\* item.key : property read; undefined on a missing key or a non-object.
Get(item, key) ==
  IF item.t = "obj" /\ key \in DOMAIN item.val THEN item.val[key] ELSE Undefined

\* String(v) and v.toString() on the scalar values a field can hold.
ToStringJS(v) == v.s

\* ------------------------------------------------------------------
\* Characters
\* ------------------------------------------------------------------

LowerLetters ==
  <<"a","b","c","d","e","f","g","h","i","j","k","l","m",
    "n","o","p","q","r","s","t","u","v","w","x","y","z">>

UpperLetters ==
  <<"A","B","C","D","E","F","G","H","I","J","K","L","M",
    "N","O","P","Q","R","S","T","U","V","W","X","Y","Z">>

Digits == {"0","1","2","3","4","5","6","7","8","9"}

HexDigits == Digits \cup {"a","b","c","d","e","f","A","B","C","D","E","F"}

Whitespace == {" "}

ToLowerChar(c) ==
  IF \E i \in 1..26 : UpperLetters[i] = c
  THEN LowerLetters[CHOOSE i \in 1..26 : UpperLetters[i] = c]
  ELSE c

ToUpperChar(c) ==
  IF \E i \in 1..26 : LowerLetters[i] = c
  THEN UpperLetters[CHOOSE i \in 1..26 : LowerLetters[i] = c]
  ELSE c

toLowerCase(str) == [i \in 1..Len(str) |-> ToLowerChar(str[i])]

toUpperCase(str) == [i \in 1..Len(str) |-> ToUpperChar(str[i])]

\* str.includes(sub) for a non-empty sub.
includes(str, sub) ==
  \E i \in 1..(Len(str) - Len(sub) + 1) : SubSeq(str, i, i + Len(sub) - 1) = sub

RECURSIVE TrimLeft(_)
TrimLeft(str) ==
  IF str # <<>> /\ Head(str) \in Whitespace THEN TrimLeft(Tail(str)) ELSE str

RECURSIVE TrimRight(_)
TrimRight(str) ==
  IF str # <<>> /\ str[Len(str)] \in Whitespace
  THEN TrimRight(SubSeq(str, 1, Len(str) - 1))
  ELSE str

trim(str) == TrimRight(TrimLeft(str))

\* ------------------------------------------------------------------
\* Parsing helpers
\* ------------------------------------------------------------------

normalize(str) ==
  LET low == toLowerCase(str)
      IsAlnum(c) == c \in Digits \/ \E i \in 1..26 : LowerLetters[i] = c
  IN SelectSeq(low, IsAlnum)

\* parseCategory calls .toUpperCase() on (val || "") and (productName || ""):
\* a truthy operand that is no string has no such method and the call throws
\* a TypeError.
parseCategoryThrows(val, productName) ==
  \/ Truthy(val) /\ val.t # "str"
  \/ Truthy(productName) /\ productName.t # "str"

parseCategory(val, productName) ==
  LET v == IF Truthy(val) THEN toUpperCase(val.s) ELSE <<>>
      n == IF Truthy(productName) THEN toUpperCase(productName.s) ELSE <<>>
  IN IF includes(v, <<"P","L","A">>) \/ includes(n, <<"P","L","A">>) THEN "PLA"
     ELSE IF includes(v, <<"P","E","T","G">>) \/ includes(n, <<"P","E","T","G">>) THEN "PETG"
     ELSE IF includes(v, <<"A","B","S">>) \/ includes(n, <<"A","B","S">>) THEN "ABS"
     ELSE IF includes(v, <<"A","S","A">>) \/ includes(n, <<"A","S","A">>) THEN "ASA"
     ELSE IF includes(v, <<"T","P","U">>) \/ includes(v, <<"F","L","E","X">>)
             \/ includes(n, <<"T","P","U">>) THEN "TPU"
     ELSE IF includes(v, <<"N","Y","L","O","N">>) \/ includes(v, <<"P","A","6">>)
             \/ includes(v, <<"P","A","1","2">>)
             \/ includes(n, <<"N","Y","L","O","N">>) THEN "Nylon"
     ELSE IF includes(v, <<"P","C">>) \/ includes(n, <<"P","C">>) THEN "PC"
     ELSE IF includes(v, <<"P","V","B">>) \/ includes(n, <<"P","V","B">>) THEN "PVB"
     ELSE IF includes(v, <<"W","O","O","D">>) \/ includes(n, <<"W","O","O","D">>) THEN "Wood"
     ELSE "Other"

\* Not-found result of the decoder (JavaScript null).
NotFound == JNull

\* Object.values(obj)
ObjectValues(obj) == [i \in 1..Len(obj.keys) |-> obj.val[obj.keys[i]]]

isArray(v) == v.t = "arr"

\* A variant of findArrayInObject that tries items before data.
findArrayInObjectItemsFirst(obj) ==
  IF ~Truthy(obj) THEN NotFound
  ELSE IF isArray(obj) THEN obj
  ELSE IF obj.t = "obj" THEN
    IF isArray(Get(obj, "items")) THEN Get(obj, "items")
    ELSE IF isArray(Get(obj, "products")) THEN Get(obj, "products")
    ELSE IF isArray(Get(obj, "data")) THEN Get(obj, "data")
    ELSE LET values == ObjectValues(obj) IN
      IF Len(values) > 0 /\ values[1].t \in {"obj", "arr"}
         /\ ( Truthy(Get(values[1], "product_name")) \/ Truthy(Get(values[1], "name"))
              \/ Truthy(Get(values[1], "hex_code")) \/ Truthy(Get(values[1], "hex"))
              \/ Truthy(Get(values[1], "color_name")) )
      THEN JArr(values)
      ELSE NotFound
  ELSE NotFound

findArrayInObject(obj) ==
  IF ~Truthy(obj) THEN NotFound
  ELSE IF isArray(obj) THEN obj
  ELSE IF obj.t = "obj" THEN
    IF isArray(Get(obj, "data")) THEN Get(obj, "data")
    ELSE IF isArray(Get(obj, "products")) THEN Get(obj, "products")
    ELSE IF isArray(Get(obj, "items")) THEN Get(obj, "items")
    ELSE LET values == ObjectValues(obj) IN
      IF Len(values) > 0 /\ values[1].t \in {"obj", "arr"}
         /\ ( Truthy(Get(values[1], "product_name")) \/ Truthy(Get(values[1], "name"))
              \/ Truthy(Get(values[1], "hex_code")) \/ Truthy(Get(values[1], "hex"))
              \/ Truthy(Get(values[1], "color_name")) )
      THEN JArr(values)
      ELSE NotFound
  ELSE NotFound

\* ------------------------------------------------------------------
\* Response bodies and JSON parsing
\* ------------------------------------------------------------------
\* A body text is a tuple of segments: Doc(v) is the JSON serialisation of v,
\* Noise is non-JSON text holding no bracket (a BOM, a banner), BNoise is
\* non-JSON text that holds a '[' (a PHP notice such as "Notice [8] ...").

Noise == [g |-> "noise"]

BNoise == [g |-> "bnoise"]

Doc(v) == [g |-> "doc", v |-> v]

Ok(v) == [ok |-> TRUE, v |-> v]

Fail == [ok |-> FALSE]

\* JSON.parse(text): succeeds only on exactly one JSON document.
JSONparse(segs) ==
  IF Len(segs) = 1 /\ segs[1].g = "doc" THEN Ok(segs[1].v) ELSE Fail

\* text.indexOf(ch) at segment granularity; 0 stands for -1.
indexOf(segs, ch) ==
  LET Has(seg) ==
        IF ch = "[" THEN seg.g = "bnoise" \/ (seg.g = "doc" /\ seg.v.t = "arr")
        ELSE seg.g = "doc" /\ seg.v.t = "obj"
      hits == {i \in 1..Len(segs) : Has(segs[i])}
  IN IF hits = {} THEN 0 ELSE CHOOSE i \in hits : \A j \in hits : i <= j

Min(a, b) == IF a <= b THEN a ELSE b

\* text.substring(start): from the bracket found. A bracket inside BNoise is
\* followed by the rest of the noise, so the segment stays noise.
substring(segs, start) == SubSeq(segs, start, Len(segs))

\* The body handling of tryDirect after res.text().
tryDirectParse(text) ==
  LET jsonStart == indexOf(text, "[")
      objStart == indexOf(text, "{")
      start == IF jsonStart # 0 /\ objStart # 0 THEN Min(jsonStart, objStart)
               ELSE IF jsonStart # 0 THEN jsonStart
               ELSE IF objStart # 0 THEN objStart
               ELSE 0
  IN IF start # 0 THEN JSONparse(substring(text, start)) ELSE JSONparse(text)

\* The body handling of tryAllOrigins: res.json(), then data.contents.
tryAllOriginsParse(text) ==
  LET data == JSONparse(text) IN
  IF ~data.ok THEN Fail
  ELSE IF data.v.t \in {"null", "undef"} THEN Fail   \* data.contents throws
  ELSE IF Truthy(Get(data.v, "contents")) THEN
    LET contents == Get(data.v, "contents")
        inner == IF contents.t = "text" THEN JSONparse(contents.segs) ELSE Fail
    IN IF inner.ok THEN Ok(inner.v) ELSE Ok(contents)
  ELSE Fail   \* "No contents in AllOrigins response"

\* A variant of tryCorsProxyParse that falls back to the raw text the way
\* tryAllOrigins does with contents.
tryCorsProxyParseRaw(text) ==
  LET data == JSONparse(text) IN
  IF data.ok THEN data ELSE IF text # <<>> THEN Ok(JText(text)) ELSE Fail

\* The body handling of tryCorsProxy: res.json().
tryCorsProxyParse(text) == JSONparse(text)

\* ------------------------------------------------------------------
\* Record normalisation (the body of the for loop of fetchPolymakerData)
\* ------------------------------------------------------------------

UnknownProduct == JStr(<<"U","n","k","n","o","w","n"," ","P","r","o","d","u","c","t">>)

UnknownColor == JStr(<<"U","n","k","n","o","w","n"," ","C","o","l","o","r">>)

DefaultUrl == JStr(<<"h","t","t","p","s",":","/","/","u","s",".","p","o","l","y","m","a","k","e","r",".","c","o","m">>)

productOf(item) ==
  OrChain(<<Get(item, "product_name"), Get(item, "product"), Get(item, "title"),
            UnknownProduct>>)

nameOf(item) ==
  OrChain(<<Get(item, "color_name"), Get(item, "name"), Get(item, "color"),
            UnknownColor>>)

rawCategoryFieldOf(item) ==
  OrChain(<<Get(item, "material"), Get(item, "material_type"), Get(item, "category"),
            Get(item, "type"), JStr(<<>>)>>)

urlOf(item) ==
  OrChain(<<Get(item, "product_url"), Get(item, "url"), Get(item, "link"), DefaultUrl>>)

\* Transmission distance: the td of the emitted entity (a string or null).
tdOf(item) ==
  LET a == Get(item, "transmission_distance")
      b == Get(item, "td")
      Present(x) == x.t \notin {"undef", "null"} /\ ~(x.t = "str" /\ x.s = <<>>)
      td == IF Present(a) THEN JStr(ToStringJS(a))
            ELSE IF Present(b) THEN JStr(ToStringJS(b))
            ELSE JNull
  IN IF td.t = "str" /\ td.s = <<"n","u","l","l">> THEN JNull ELSE td

rawHexOf(item) ==
  OrChain(<<Get(item, "hex_code"), Get(item, "hex"), Get(item, "hexcodes"),
            Get(item, "color_hex"), Get(item, "color_code"), Get(item, "value")>>)

\* let hex = rawHex ? rawHex.toString().trim() : null, then the '#' prefix;
\* <<>> stands for both null and the empty string (the falsy results).
hexOf(item) ==
  LET rawHex == rawHexOf(item)
      hex == IF Truthy(rawHex) THEN trim(ToStringJS(rawHex)) ELSE <<>>
  IN IF hex = <<>> THEN <<>>
     ELSE IF Head(hex) # "#" THEN <<"#">> \o hex
     ELSE hex

\* /^#([0-9A-F]{3,8})$/i.test(hex)
hexPatternTest(hex) ==
  /\ Len(hex) >= 4
  /\ Len(hex) <= 9
  /\ hex[1] = "#"
  /\ \A i \in 2..Len(hex) : hex[i] \in HexDigits

\* normalize(product) and normalize(name) call .toLowerCase(): a name that is
\* no string throws a TypeError (product is a string once parseCategory passed).
idThrows(item) ==
  /\ ~Truthy(Get(item, "id"))
  /\ (productOf(item).t # "str" \/ nameOf(item).t # "str")

idOf(item) ==
  IF Truthy(Get(item, "id")) THEN ToStringJS(Get(item, "id"))
  ELSE normalize(productOf(item).s) \o <<"-">> \o normalize(nameOf(item).s)

\* The entity handed to onProductFound.
Product(item) ==
  [id |-> idOf(item),
   product |-> productOf(item),
   name |-> nameOf(item),
   category |-> parseCategory(rawCategoryFieldOf(item), productOf(item)),
   hex |-> hexOf(item),
   url |-> urlOf(item),
   td |-> tdOf(item)]

\* ------------------------------------------------------------------
\* Hex utility (hexToRgb of the scene)
\* ------------------------------------------------------------------

HexChars == <<"0","1","2","3","4","5","6","7","8","9","A","B","C","D","E","F">>

\* The value of one hexadecimal digit, in either case.
HexDigitValue(c) == (CHOOSE i \in 1..16 : HexChars[i] = ToUpperChar(c)) - 1

\* parseInt(pair, 16) on two hexadecimal digits
parseInt16(pair) == 16 * HexDigitValue(pair[1]) + HexDigitValue(pair[2])

\* The part of str after the optional leading '#' (the ^#? of both patterns).
AfterHash(str) == IF str # <<>> /\ Head(str) = "#" THEN Tail(str) ELSE str

\* hex.replace(/^#?([a-f\d])([a-f\d])([a-f\d])$/i, ...): a 3-digit string is
\* replaced, '#' included, by its digits doubled; any other string is left alone.
fullHexOf(hex) ==
  LET d == AfterHash(hex) IN
  IF Len(d) = 3 /\ \A k \in 1..3 : d[k] \in HexDigits
  THEN <<d[1], d[1], d[2], d[2], d[3], d[3]>>
  ELSE hex

\* /^#?([a-f\d]{2})([a-f\d]{2})([a-f\d]{2})$/i.exec(fullHex): the three pairs,
\* or <<>> for null.
execSixDigits(fullHex) ==
  LET d == AfterHash(fullHex) IN
  IF Len(d) = 6 /\ \A k \in 1..6 : d[k] \in HexDigits
  THEN <<SubSeq(d, 1, 2), SubSeq(d, 3, 4), SubSeq(d, 5, 6)>>
  ELSE <<>>

hexToRgb(hex) ==
  LET result == execSixDigits(fullHexOf(hex)) IN
  IF result # <<>>
  THEN [r |-> parseInt16(result[1]), g |-> parseInt16(result[2]), b |-> parseInt16(result[3])]
  ELSE [r |-> 0, g |-> 0, b |-> 0]

\* ------------------------------------------------------------------
\* Inputs: raw records, record lists, payloads and response bodies
\* ------------------------------------------------------------------

Rec(keys, val) == JObj(keys, val)

\* {"id":"1","hex":"#FF0000","product":"X","color":"Red"}
ItRed ==
  Rec(<<"id", "hex", "product", "color">>,
      [id |-> JStr(<<"1">>), hex |-> JStr(<<"#","F","F","0","0","0","0">>), product |-> JStr(<<"X">>),
       color |-> JStr(<<"R","e","d">>)])

\* {"id":1,"hex_code":"00f","product_name":"PolyLite PLA","color_name":"Blue","td":"null"}
ItRedAgain ==
  Rec(<<"id", "hex_code", "product_name", "color_name", "td">>,
      [id |-> JNum(<<"1">>), hex_code |-> JStr(<<"0","0","f">>),
       product_name |-> JStr(<<"P","o","l","y","L","i","t","e"," ","P","L","A">>), color_name |-> JStr(<<"B","l","u","e">>),
       td |-> JStr(<<"n","u","l","l">>)])

\* {"title":"PETG","name":"Sky","color_hex":" 0af ","transmission_distance":2.5}
ItDerived ==
  Rec(<<"title", "name", "color_hex", "transmission_distance">>,
      [title |-> JStr(<<"P","E","T","G">>), name |-> JStr(<<"S","k","y">>), color_hex |-> JStr(<<" ","0","a","f"," ">>),
       transmission_distance |-> JNum(<<"2",".","5">>)])

\* {"product":"Pet-G","color":"SKY","value":"#123456","material":"Nylon"}
ItDerivedAgain ==
  Rec(<<"product", "color", "value", "material">>,
      [product |-> JStr(<<"P","e","t","-","G">>), color |-> JStr(<<"S","K","Y">>), value |-> JStr(<<"#","1","2","3","4","5","6">>),
       material |-> JStr(<<"N","y","l","o","n">>)])

\* {"id":"2","product":"ABS","name":"Black"}: no hex under any field name
ItNoHex ==
  Rec(<<"id", "product", "name">>,
      [id |-> JStr(<<"2">>), product |-> JStr(<<"A","B","S">>), name |-> JStr(<<"B","l","a","c","k">>)])

\* {"id":"3","hex":"red"}: "#red" fails the pattern
ItBadHex ==
  Rec(<<"id", "hex">>, [id |-> JStr(<<"3">>), hex |-> JStr(<<"r","e","d">>)])

\* {"id":"4","type":5}: a numeric category field (and no hex)
ItNumType ==
  Rec(<<"id", "type">>, [id |-> JStr(<<"4">>), type |-> JNum(<<"5">>)])

\* {"hex":"#0F0","name":7}: a numeric colour name and no id
ItNumName ==
  Rec(<<"hex", "name">>, [hex |-> JStr(<<"#","0","F","0">>), name |-> JNum(<<"7">>)])

ItemPool ==
  {JNull, ItRed, ItRedAgain, ItDerived, ItDerivedAgain, ItNoHex, ItBadHex,
   ItNumType, ItNumName}

Lists(n) == UNION {[1..k -> ItemPool] : k \in 0..n}

IndexKeys == <<"0", "1", "2", "3", "4", "5">>

\* {"0": r1, "1": r2, ...}
Dictionary(list) ==
  JObj(SubSeq(IndexKeys, 1, Len(list)),
       [k \in {IndexKeys[i] : i \in 1..Len(list)} |->
          list[CHOOSE i \in 1..Len(list) : IndexKeys[i] = k]])

\* {"foo":"bar"}
FooBar == JObj(<<"foo">>, [foo |-> JStr(<<"b","a","r">>)])

\* The JSON values the endpoint may serve.
Payloads ==
  {JArr(l) : l \in Lists(MaxItems)}
    \cup {JObj(<<"data">>, [data |-> JArr(l)]) : l \in Lists(MaxWrapped)}
    \cup {JObj(<<"products">>, [products |-> JArr(l)]) : l \in Lists(MaxWrapped)}
    \cup {JObj(<<"items">>, [items |-> JArr(l)]) : l \in Lists(MaxWrapped)}
    \cup {Dictionary(l) : l \in Lists(MaxWrapped)}
    \cup {FooBar, JNull}

\* The body texts a server may send for a JSON value v: its JSON text, and
\* that text with noise before or after it.
TextsOf(v) ==
  {<<Doc(v)>>, <<Noise, Doc(v)>>, <<BNoise, Doc(v)>>, <<Doc(v), Noise>>}

\* The body texts the endpoint (or the alternate proxy relaying it) may send;
\* <<>> is an empty body.
Texts == {<<>>, <<Noise>>} \cup UNION {TextsOf(v) : v \in Payloads}

\* The envelopes the wrapping proxy may send: {"contents": <string>}, an
\* object without contents, and null.
Envelopes ==
  {JObj(<<"contents">>, [contents |-> JText(t)]) : t \in Texts}
    \cup {JObj(<<"status">>, [status |-> JNum(<<"5","0","0">>)]), JNull}

\* The body texts the wrapping proxy may send.
EnvelopeTexts ==
  {<<Doc(v)>> : v \in Envelopes} \cup {<<>>, <<Noise>>, <<Noise, Doc(JNull)>>}

\* ------------------------------------------------------------------
\* State
\* ------------------------------------------------------------------

\* The order of the try blocks of fetchJsonRobust.
Strategies == <<"AllOrigins", "Direct", "CorsProxy">>

StrategyIds == 1..Len(Strategies)

\* The per-records batch of the progress report (count % 20).
BatchSize == 20

ConnectError == "Unable to connect to Polymaker API via any proxy."

NoListError == "Connected to API but found no product list in response."

NoHexError == "API response parsed but no valid hex codes were found."

TypeError == "TypeError"

\* error === null: no error is shown.
NoError == "null"

VARIABLES
  pc,            \* where fetchPolymakerData stands: "idle", "acquire" (awaiting
                 \* fetchJsonRobust), "loop", "yield" (awaiting setTimeout 0),
                 \* "done", "raised"
  att,           \* per strategy: "none", "fetch" (awaiting fetch), "body"
                 \* (awaiting res.text()/res.json()), "failed", "ok"
  timer,         \* per strategy: the abort timer of fetchWithTimeout is pending
  started,       \* history: the strategies in the order they were started
  undecodable,   \* history, per strategy: "body" when the body received was not
                 \* decodable JSON, "contents" when the envelope of the wrapping
                 \* proxy carried a non-JSON contents string, else "no"
  produced,      \* history, per strategy: the value its own code returned
  chain,         \* fetchJsonRobust: "idle", "pending", "returned", "raised"
  rawData,       \* the value fetchJsonRobust returned
  items,         \* the record list found by findArrayInObject
  pos,           \* index of the next record of the for loop
  processedIds,  \* the Set of ids already emitted
  count,         \* the running count of emitted entities
  trace,         \* history: callback invocations and records examined, in order
  raised,        \* history: the errors fetchPolymakerData raised
  products,      \* App: the product collection (useState products)
  error,         \* App: the error message shown, NoError when there is none
  loading,       \* App: an ingestion run is in progress (useState loading)
  refreshed,     \* history: a refresh or retry has restarted the ingestion
  call,          \* a call of a pure function: its name and arguments
  out,           \* the result of that call
  clusterThreshold,  \* SceneContent: useState clusterThreshold
  dist,          \* the distance of the camera to the target of the controls
  sceneProps,    \* the props of the scene: allProducts, visibleProductIds
  memo,          \* the useMemo of renderNodes: its dependencies and its value
  lastEvent,     \* history: the last event of the scene, the threshold before
                 \* it and whether the render after it recomputed the clusters
  selectedCategories,  \* App: useState selectedCategories, a list
  arrived,       \* App: the products onProductFound has appended in the run
  hasLoadedRef,  \* App: hasLoadedRef.current
  runs,          \* the calls of initDataFetch in progress: the ids each has emitted
  runsStarted,   \* history: the number of calls of initDataFetch
  effectsRun,    \* history: the number of runs of the effect of the initial load
  initialLoads,  \* history: the number of calls of initDataFetch made by the effect
  hoveredProducts,    \* App: useState hoveredProducts, the node hovered or NoNode
  quickViewProduct,   \* App: useState quickViewProduct, a node or NoNode
  hoverTimeoutRef,    \* App: hoverTimeoutRef.current, a timer id, 0 for null
  currentHoverIdRef,  \* App: currentHoverIdRef.current
  pendingTimers,      \* the timers set and neither cleared nor fired
  timersSet,          \* the number of calls of setTimeout, the last timer id
  pointerOn           \* where the pointer is: a node, the tooltip or nowhere

vars ==
  <<pc, att, timer, started, undecodable, produced, chain, rawData, items, pos,
    processedIds, count, trace, raised, products, error, loading,
    refreshed, call, out, clusterThreshold, dist, sceneProps, memo, lastEvent,
    selectedCategories, arrived, hasLoadedRef, runs, runsStarted, effectsRun,
    initialLoads, hoveredProducts, quickViewProduct, hoverTimeoutRef,
    currentHoverIdRef, pendingTimers, timersSet, pointerOn>>

netVars == <<att, timer, started, undecodable, produced, chain, rawData>>

loopVars == <<items, pos, processedIds, count>>

appVars == <<products, error, loading>>

fnVars == <<call, out>>

runVars ==
  <<pc, att, timer, started, undecodable, produced, chain, rawData, items, pos,
    processedIds, count, trace, raised, products, error, loading, refreshed>>

sceneVars == <<clusterThreshold, dist, sceneProps, memo, lastEvent>>

selectVars == <<selectedCategories, arrived>>

lifeVars == <<hasLoadedRef, runs, runsStarted, effectsRun, initialLoads>>

hoverVars ==
  <<hoveredProducts, quickViewProduct, hoverTimeoutRef, currentHoverIdRef,
    pendingTimers, timersSet, pointerOn>>

\* null where a node or the id of a node is expected.
NoNode == "null"

\* The state of fetchPolymakerData and the histories of the ingestion.
fetchVars ==
  <<pc, att, timer, started, undecodable, produced, chain, rawData, items, pos,
    processedIds, count, trace, raised, refreshed>>

\* The state of the interface outside the ingestion.
uiVars == <<sceneVars, selectVars, lifeVars, hoverVars>>

\* No call of a pure function is under way, and no result.
NoCall == [fn |-> "none"]

NoResult == [kind |-> "none"]

\* The call returned v.
Returned(v) == [kind |-> "value", v |-> v]

\* Trace events.
Progress(status, n) == [e |-> "onProgress", status |-> status, count |-> n]

Found(product) == [e |-> "onProductFound", product |-> product]

Examine(i) == [e |-> "item", i |-> i]

InFlight == {s \in StrategyIds : att[s] \in {"fetch", "body"}}

\* useState(15) of clusterThreshold.
DefaultThreshold == 15

\* The camera starts at [450, 350, 450] and the target of the controls is
\* [128, 128, 128]: a distance of about 506.6, here the next integer.
InitialDistance == 507

\* The interface when the application is mounted: no product, default
\* threshold, the clusters of no product.
UiInit ==
  /\ clusterThreshold = DefaultThreshold
  /\ dist = InitialDistance
  /\ sceneProps = [allProducts |-> <<>>, visibleProductIds |-> {}]
  /\ memo = [deps |-> << <<>>, {}, DefaultThreshold >>, nodes |-> <<>>]
  /\ lastEvent = [kind |-> "none", threshold |-> DefaultThreshold, recomputed |-> FALSE]
  /\ selectedCategories = <<>>
  /\ arrived = <<>>
  /\ hasLoadedRef = FALSE
  /\ runs = <<>>
  /\ runsStarted = 0
  /\ effectsRun = 0
  /\ initialLoads = 0
  /\ hoveredProducts = NoNode
  /\ quickViewProduct = NoNode
  /\ hoverTimeoutRef = 0
  /\ currentHoverIdRef = NoNode
  /\ pendingTimers = {}
  /\ timersSet = 0
  /\ pointerOn = "none"

Init ==
  /\ pc = "idle"
  /\ att = [s \in StrategyIds |-> "none"]
  /\ timer = [s \in StrategyIds |-> FALSE]
  /\ started = <<>>
  /\ undecodable = [s \in StrategyIds |-> "no"]
  /\ produced = [s \in StrategyIds |-> Undefined]
  /\ chain = "idle"
  /\ rawData = Undefined
  /\ items = <<>>
  /\ pos = 1
  /\ processedIds = {}
  /\ count = 0
  /\ trace = <<>>
  /\ raised = <<>>
  /\ products = <<>>
  /\ error = NoError
  /\ loading = FALSE
  /\ refreshed = FALSE
  /\ call = NoCall
  /\ out = NoResult
  /\ UiInit

\* ------------------------------------------------------------------
\* Acquisition: fetchWithTimeout, the three strategies, fetchJsonRobust
\* ------------------------------------------------------------------

\* A variant of Start that issues the three requests at once (a race of the
\* strategies instead of a chain).
StartAllAtOnce ==
  /\ pc = "idle"
  /\ pc' = "acquire"
  /\ count' = 0
  /\ trace' = Append(trace, Progress("Connecting to API...", 0))
  /\ chain' = "pending"
  /\ att' = [s \in StrategyIds |-> "fetch"]
  /\ timer' = [s \in StrategyIds |-> TRUE]
  /\ started' = <<1, 2, 3>>
  /\ loading' = TRUE
  /\ error' = NoError
  /\ products' = <<>>
  /\ UNCHANGED refreshed
  /\ UNCHANGED <<undecodable, produced, rawData, items, pos, processedIds, raised>>
  /\ UNCHANGED fnVars
  /\ UNCHANGED uiVars

\* fetchPolymakerData is called: onProgress, then fetchJsonRobust runs up to
\* the first await, inside fetchWithTimeout of tryAllOrigins (timer set,
\* request issued).
Start ==
  /\ pc = "idle"
  /\ pc' = "acquire"
  /\ count' = 0
  /\ trace' = Append(trace, Progress("Connecting to API...", 0))
  /\ chain' = "pending"
  /\ att' = [att EXCEPT ![1] = "fetch"]
  /\ timer' = [timer EXCEPT ![1] = TRUE]
  /\ started' = Append(started, 1)
  /\ loading' = TRUE
  /\ error' = NoError
  /\ products' = <<>>
  /\ UNCHANGED refreshed
  /\ UNCHANGED <<undecodable, produced, rawData, items, pos, processedIds, raised>>
  /\ UNCHANGED fnVars
  /\ UNCHANGED uiVars

\* A variant of OnAttemptFailed without the catch blocks: the failure of any
\* strategy leaves fetchJsonRobust with the aggregate error.
OnAttemptFailedPropagates(s) ==
  /\ att' = [att EXCEPT ![s] = "failed"]
  /\ timer' = [timer EXCEPT ![s] = FALSE]
  /\ chain' = "raised"
  /\ pc' = "raised"
  /\ raised' = Append(raised, ConnectError)
  /\ error' = ConnectError
  /\ loading' = FALSE
  /\ UNCHANGED <<started, products>>

\* What fetchJsonRobust does when the attempt of strategy s throws: the catch
\* block logs, the next try block starts the next strategy (up to its first
\* await), and after the last one the aggregate error is thrown, which
\* fetchPolymakerData does not catch.
OnAttemptFailed(s) ==
  IF s < Len(Strategies)
  THEN /\ att' = [att EXCEPT ![s] = "failed", ![s + 1] = "fetch"]
       /\ timer' = [timer EXCEPT ![s] = FALSE, ![s + 1] = TRUE]
       /\ started' = Append(started, s + 1)
       /\ UNCHANGED <<chain, pc, raised>>
       /\ UNCHANGED appVars
  ELSE /\ att' = [att EXCEPT ![s] = "failed"]
       /\ timer' = [timer EXCEPT ![s] = FALSE]
       /\ chain' = "raised"
       /\ pc' = "raised"
       /\ raised' = Append(raised, ConnectError)
       /\ error' = ConnectError
       /\ loading' = FALSE
       /\ UNCHANGED <<started, products>>

\* A variant of OnAcquired without the length check of the list found.
OnAcquiredNoLengthCheck(v) ==
  LET found == findArrayInObject(v) IN
  IF ~Truthy(found)
  THEN /\ pc' = "raised"
       /\ raised' = Append(raised, NoListError)
       /\ error' = NoListError
       /\ loading' = FALSE
       /\ UNCHANGED <<items, trace, products>>
  ELSE /\ pc' = "loop"
       /\ items' = found.a
       /\ trace' = Append(trace, Progress("Processing items...", 0))
       /\ UNCHANGED raised
       /\ UNCHANGED appVars

\* The decoding of fetchPolymakerData once fetchJsonRobust returned v:
\* findArrayInObject, the emptiness check, the second onProgress.
OnAcquired(v) ==
  LET found == findArrayInObject(v) IN
  IF ~Truthy(found) \/ Len(found.a) = 0
  THEN /\ pc' = "raised"
       /\ raised' = Append(raised, NoListError)
       /\ error' = NoListError
       /\ loading' = FALSE
       /\ UNCHANGED <<items, trace, products>>
  ELSE /\ pc' = "loop"
       /\ items' = found.a
       /\ trace' = Append(trace, Progress("Processing items...", 0))
       /\ UNCHANGED raised
       /\ UNCHANGED appVars

\* What fetchJsonRobust does when the attempt of strategy s yields v:
\* return it; fetchPolymakerData goes on in the same turn.
OnAttemptSucceeded(s, v) ==
  /\ att' = [att EXCEPT ![s] = "ok"]
  /\ chain' = "returned"
  /\ rawData' = v
  /\ OnAcquired(v)
  /\ UNCHANGED <<timer, started>>

\* fetch() rejects (network error, CORS refusal): clearTimeout, rethrow.
FetchRejects(s) ==
  /\ pc = "acquire"
  /\ att[s] = "fetch"
  /\ OnAttemptFailed(s)
  /\ UNCHANGED <<undecodable, produced, rawData, trace>>
  /\ UNCHANGED loopVars
  /\ UNCHANGED fnVars
  /\ UNCHANGED uiVars
  /\ UNCHANGED refreshed

\* The timer of fetchWithTimeout fires: controller.abort() cancels the request,
\* the pending operation rejects and the attempt fails.
TimerExpires(s) ==
  /\ pc = "acquire"
  /\ timer[s]
  /\ s \in InFlight
  /\ OnAttemptFailed(s)
  /\ UNCHANGED <<undecodable, produced, rawData, trace>>
  /\ UNCHANGED loopVars
  /\ UNCHANGED fnVars
  /\ UNCHANGED uiVars
  /\ UNCHANGED refreshed

\* fetch() resolves with the response headers: clearTimeout(id), return the
\* response; a non-ok status throws, otherwise the body is awaited.
HeadersArrive(s, ok) ==
  /\ pc = "acquire"
  /\ att[s] = "fetch"
  /\ IF ok
     THEN /\ att' = [att EXCEPT ![s] = "body"]
          /\ timer' = [timer EXCEPT ![s] = FALSE]
          /\ UNCHANGED <<started, chain, pc, raised>>
          /\ UNCHANGED appVars
     ELSE OnAttemptFailed(s)
  /\ UNCHANGED <<undecodable, produced, rawData, trace>>
  /\ UNCHANGED loopVars
  /\ UNCHANGED fnVars
  /\ UNCHANGED uiVars
  /\ UNCHANGED refreshed

\* The body handling of strategy s.
ParseBody(s, text) ==
  IF Strategies[s] = "AllOrigins" THEN tryAllOriginsParse(text)
  ELSE IF Strategies[s] = "Direct" THEN tryDirectParse(text)
  ELSE tryCorsProxyParse(text)

\* What is undecodable in the body strategy s received: "body" when the body
\* is no single JSON document (for the direct strategy: also not one behind
\* leading bracket-free noise), "contents" when the envelope of the wrapping
\* proxy is JSON but the non-empty contents string it carries is not, else "no".
Undecodable(s, text) ==
  LET IsJson(t) == Len(t) = 1 /\ t[1].g = "doc"
      IsNoisyJson(t) ==
        Len(t) = 2 /\ t[1].g = "noise" /\ t[2].g = "doc" /\ t[2].v.t \in {"arr", "obj"}
  IN IF Strategies[s] = "AllOrigins"
     THEN IF ~IsJson(text) THEN "body"
          ELSE IF /\ text[1].v.t = "obj"
                  /\ "contents" \in DOMAIN text[1].v.val
                  /\ text[1].v.val["contents"].t = "text"
                  /\ text[1].v.val["contents"].segs # <<>>
                  /\ ~IsJson(text[1].v.val["contents"].segs)
          THEN "contents"
          ELSE "no"
     ELSE IF Strategies[s] = "Direct"
     THEN IF ~IsJson(text) /\ ~IsNoisyJson(text) THEN "body" ELSE "no"
     ELSE IF ~IsJson(text) THEN "body" ELSE "no"

\* The bodies a server may send to strategy s.
Bodies(s) == IF Strategies[s] = "AllOrigins" THEN EnvelopeTexts ELSE Texts

\* The body arrives in full: res.text() / res.json() resolves with the text the
\* server sent and the strategy parses it.
BodyArrives(s) ==
  /\ pc = "acquire"
  /\ att[s] = "body"
  /\ \E text \in Bodies(s) :
       /\ undecodable' = [undecodable EXCEPT ![s] = Undecodable(s, text)]
       /\ LET r == ParseBody(s, text) IN
            IF r.ok
            THEN /\ produced' = [produced EXCEPT ![s] = r.v]
                 /\ OnAttemptSucceeded(s, r.v)
                 /\ UNCHANGED <<pos, processedIds, count>>
            ELSE /\ OnAttemptFailed(s)
                 /\ UNCHANGED <<produced, rawData, trace>>
                 /\ UNCHANGED loopVars
  /\ UNCHANGED fnVars
  /\ UNCHANGED uiVars
  /\ UNCHANGED refreshed

\* Reading the body rejects (the connection drops mid-body).
BodyFails(s) ==
  /\ pc = "acquire"
  /\ att[s] = "body"
  /\ OnAttemptFailed(s)
  /\ UNCHANGED <<undecodable, produced, rawData, trace>>
  /\ UNCHANGED loopVars
  /\ UNCHANGED fnVars
  /\ UNCHANGED uiVars
  /\ UNCHANGED refreshed

\* ------------------------------------------------------------------
\* The record loop of fetchPolymakerData
\* ------------------------------------------------------------------

\* What the loop body makes of one record before the duplicate check (it
\* depends on the record alone): "skip" for a falsy record (continue), "throw"
\* when parseCategory or normalize throws a TypeError, "nohex" when no hex
\* field resolves, "badhex" when the pattern fails, else the entity.
NormaliseRecord(item) ==
  IF ~Truthy(item) THEN [kind |-> "skip"]
  ELSE IF parseCategoryThrows(rawCategoryFieldOf(item), productOf(item))
  THEN [kind |-> "throw"]
  ELSE IF hexOf(item) = <<>> THEN [kind |-> "nohex"]
  ELSE IF ~hexPatternTest(hexOf(item)) THEN [kind |-> "badhex"]
  ELSE IF idThrows(item) THEN [kind |-> "throw"]
  ELSE [kind |-> "entity", product |-> Product(item)]

\* NormaliseRecord tabulated over the records of the model.
Normalised == [item \in ItemPool |-> NormaliseRecord(item)]

\* processedIds.has(id)
IsDuplicate(id, ids) == id \in ids

\* One iteration of the for loop, up to the next iteration or the await of the
\* progress batch.
ProcessItem ==
  /\ pc = "loop"
  /\ pos <= Len(items)
  /\ LET r == Normalised[items[pos]]
         seen == Append(trace, Examine(pos))
     IN
     IF r.kind = "skip"
     THEN \* continue
          /\ pos' = pos + 1
          /\ trace' = seen
          /\ UNCHANGED <<pc, processedIds, count, raised>>
          /\ UNCHANGED appVars
     ELSE IF r.kind = "throw"
     THEN \* the TypeError leaves the loop and the function
          /\ pc' = "raised"
          /\ raised' = Append(raised, TypeError)
          /\ trace' = seen
          /\ error' = TypeError
          /\ loading' = FALSE
          /\ UNCHANGED <<pos, processedIds, count, products>>
     ELSE LET emit == r.kind = "entity" /\ ~IsDuplicate(r.product.id, processedIds)
              newCount == IF emit THEN count + 1 ELSE count
              called == IF emit THEN Append(seen, Found(r.product)) ELSE seen
          IN /\ processedIds' =
                  IF emit THEN processedIds \cup {r.product.id} ELSE processedIds
             /\ count' = newCount
             /\ pos' = pos + 1
             /\ IF newCount % BatchSize = 0
                THEN /\ trace' = Append(called, Progress("Loaded colors...", newCount))
                     /\ pc' = "yield"
                ELSE /\ trace' = called
                     /\ pc' = "loop"
             /\ products' =
                  IF emit /\ \A k \in 1..Len(products) : products[k].id # r.product.id
                  THEN Append(products, r.product)
                  ELSE products
             /\ UNCHANGED <<raised, error, loading>>
  /\ UNCHANGED items
  /\ UNCHANGED netVars
  /\ UNCHANGED fnVars
  /\ UNCHANGED uiVars
  /\ UNCHANGED refreshed

\* The setTimeout(r, 0) of the batch fires and the loop goes on.
Resume ==
  /\ pc = "yield"
  /\ pc' = "loop"
  /\ UNCHANGED <<trace, raised>>
  /\ UNCHANGED loopVars
  /\ UNCHANGED netVars
  /\ UNCHANGED appVars
  /\ UNCHANGED fnVars
  /\ UNCHANGED uiVars
  /\ UNCHANGED refreshed

\* A variant of Finish that reports the number of records of the list instead
\* of the number of entities emitted.
FinishReportsListLength ==
  /\ pc = "loop"
  /\ pos > Len(items)
  /\ IF count = 0
     THEN /\ pc' = "raised"
          /\ raised' = Append(raised, NoHexError)
          /\ error' = NoHexError
          /\ UNCHANGED trace
     ELSE /\ pc' = "done"
          /\ trace' = Append(trace, Progress("Done!", Len(items)))
          /\ UNCHANGED <<raised, error>>
  /\ loading' = FALSE
  /\ UNCHANGED products
  /\ UNCHANGED loopVars
  /\ UNCHANGED netVars
  /\ UNCHANGED fnVars
  /\ UNCHANGED uiVars
  /\ UNCHANGED refreshed

\* The loop is exhausted: the count check and the final onProgress.
Finish ==
  /\ pc = "loop"
  /\ pos > Len(items)
  /\ IF count = 0
     THEN /\ pc' = "raised"
          /\ raised' = Append(raised, NoHexError)
          /\ error' = NoHexError
          /\ UNCHANGED trace
     ELSE /\ pc' = "done"
          /\ trace' = Append(trace, Progress("Done!", count))
          /\ UNCHANGED <<raised, error>>
  /\ loading' = FALSE
  /\ UNCHANGED products
  /\ UNCHANGED loopVars
  /\ UNCHANGED netVars
  /\ UNCHANGED fnVars
  /\ UNCHANGED uiVars
  /\ UNCHANGED refreshed

\* ------------------------------------------------------------------
\* The consumer: initDataFetch, handleRefresh
\* ------------------------------------------------------------------

\* A variant of handleRefresh whose initDataFetch does not clear the product
\* collection nor the error.
handleRefreshKeeps ==
  /\ ~loading
  /\ pc \in {"done", "raised"}
  /\ refreshed' = TRUE
  /\ loading' = TRUE
  /\ UNCHANGED <<products, error>>
  /\ pc' = "acquire"
  /\ count' = 0
  /\ trace' = <<Progress("Connecting to API...", 0)>>
  /\ chain' = "pending"
  /\ att' = [s \in StrategyIds |-> IF s = 1 THEN "fetch" ELSE "none"]
  /\ timer' = [s \in StrategyIds |-> s = 1]
  /\ started' = <<1>>
  /\ undecodable' = [s \in StrategyIds |-> "no"]
  /\ produced' = [s \in StrategyIds |-> Undefined]
  /\ rawData' = Undefined
  /\ items' = <<>>
  /\ pos' = 1
  /\ processedIds' = {}
  /\ raised' = <<>>
  /\ UNCHANGED fnVars
  /\ UNCHANGED uiVars

\* The refresh button of the panel (disabled while loading) or the "Try Again"
\* button of the error overlay (shown while not loading) is clicked:
\* initDataFetch runs again, up to the first await of the new call of
\* fetchPolymakerData, whose locals and histories are those of a fresh call.
handleRefresh ==
  /\ ~loading
  /\ pc \in {"done", "raised"}
  /\ refreshed' = TRUE
  /\ loading' = TRUE
  /\ error' = NoError
  /\ products' = <<>>
  /\ pc' = "acquire"
  /\ count' = 0
  /\ trace' = <<Progress("Connecting to API...", 0)>>
  /\ chain' = "pending"
  /\ att' = [s \in StrategyIds |-> IF s = 1 THEN "fetch" ELSE "none"]
  /\ timer' = [s \in StrategyIds |-> s = 1]
  /\ started' = <<1>>
  /\ undecodable' = [s \in StrategyIds |-> "no"]
  /\ produced' = [s \in StrategyIds |-> Undefined]
  /\ rawData' = Undefined
  /\ items' = <<>>
  /\ pos' = 1
  /\ processedIds' = {}
  /\ raised' = <<>>
  /\ UNCHANGED fnVars
  /\ UNCHANGED uiVars

\* ------------------------------------------------------------------
\* Color aggregator (displayColor of FilamentNode)
\* ------------------------------------------------------------------

\* Math.round(Math.sqrt(num / den)) for integers num >= 0, den > 0: the integer
\* part k of the root, plus one when the root is at least k + 1/2.
roundSqrt(num, den) ==
  LET k == CHOOSE n \in 0..num : n * n * den <= num /\ (n + 1) * (n + 1) * den > num
  IN IF (2 * k + 1) * (2 * k + 1) * den <= 4 * num THEN k + 1 ELSE k

\* The sum of a sequence of numbers (the += of the forEach).
RECURSIVE Sum(_)
Sum(seq) == IF seq = <<>> THEN 0 ELSE Head(seq) + Sum(Tail(seq))

\* A variant of displayColor that takes the linear mean of the channels.
displayColorLinearMean(hexes) ==
  LET size == Len(hexes)   \* count
      res(hex) == execSixDigits(fullHexOf(hex))
      R(hex) == IF res(hex) # <<>> THEN parseInt16(res(hex)[1]) ELSE 0
      G(hex) == IF res(hex) # <<>> THEN parseInt16(res(hex)[2]) ELSE 0
      B(hex) == IF res(hex) # <<>> THEN parseInt16(res(hex)[3]) ELSE 0
  IN IF size = 1 THEN [t |-> "hex", s |-> hexes[1]]
     ELSE [t |-> "rgb",
           r |-> (2 * Sum([k \in 1..size |-> R(hexes[k])]) + size) \div (2 * size),
           g |-> (2 * Sum([k \in 1..size |-> G(hexes[k])]) + size) \div (2 * size),
           b |-> (2 * Sum([k \in 1..size |-> B(hexes[k])]) + size) \div (2 * size)]

\* displayColor for the hex strings of the products of a node: the hex of the
\* only member, else `rgb(r,g,b)` with the root mean square of each channel; a
\* member whose hex does not parse adds nothing to the sums but counts.
displayColor(hexes) ==
  LET size == Len(hexes)   \* count
      res(hex) == execSixDigits(fullHexOf(hex))
      RR(hex) == IF res(hex) # <<>> THEN parseInt16(res(hex)[1]) * parseInt16(res(hex)[1]) ELSE 0
      GG(hex) == IF res(hex) # <<>> THEN parseInt16(res(hex)[2]) * parseInt16(res(hex)[2]) ELSE 0
      BB(hex) == IF res(hex) # <<>> THEN parseInt16(res(hex)[3]) * parseInt16(res(hex)[3]) ELSE 0
  IN IF size = 1 THEN [t |-> "hex", s |-> hexes[1]]
     ELSE [t |-> "rgb",
           r |-> roundSqrt(Sum([k \in 1..size |-> RR(hexes[k])]), size),
           g |-> roundSqrt(Sum([k \in 1..size |-> GG(hexes[k])]), size),
           b |-> roundSqrt(Sum([k \in 1..size |-> BB(hexes[k])]), size)]

\* ------------------------------------------------------------------
\* Clustering engine (renderNodes of the scene)
\* ------------------------------------------------------------------

\* Numbers that are no integers (the cluster centers) are exact fractions
\* num / den in lowest terms, den > 0.
RECURSIVE Gcd(_, _)
Gcd(a, b) == IF b = 0 THEN a ELSE Gcd(b, a % b)

Abs(a) == IF a < 0 THEN -a ELSE a

Frac(num, den) ==
  LET g == Gcd(Abs(num), den) IN [num |-> num \div g, den |-> den \div g]

Lcm(a, b) == (a \div Gcd(a, b)) * b

\* The rank of a character in the collation of localeCompare, for the
\* characters of the ids of the model: digits before letters.
CharRank(c) ==
  LET order == <<"0","1","2","3","4","5","6","7","8","9">> \o LowerLetters
  IN CHOOSE i \in 1..Len(order) : order[i] = c

\* a.localeCompare(b) < 0, on ids made of digits and lower-case letters.
RECURSIVE localeCompareLess(_, _)
localeCompareLess(a, b) ==
  IF b = <<>> THEN FALSE
  ELSE IF a = <<>> THEN TRUE
  ELSE IF Head(a) # Head(b) THEN CharRank(Head(a)) < CharRank(Head(b))
  ELSE localeCompareLess(Tail(a), Tail(b))

RECURSIVE sortById(_)

\* A variant of sortById that leaves the items in the order they came in.
sortByIdSkipped(list) == list

\* items.sort((a, b) => a.product.id.localeCompare(b.product.id)): a stable
\* sort, here by insertion.
sortById(list) ==
  IF list = <<>> THEN <<>>
  ELSE LET front == sortById(SubSeq(list, 1, Len(list) - 1))
           last == list[Len(list)]
           \* the elements of front that stay before last
           keep == {k \in 1..Len(front) :
                      ~localeCompareLess(last.product.id, front[k].product.id)}
           cut == IF keep = {} THEN 0 ELSE CHOOSE k \in keep : \A m \in keep : m <= k
       IN SubSeq(front, 1, cut) \o <<last>> \o SubSeq(front, cut + 1, Len(front))

\* A variant of visibleProductsOf without the filter.
visibleProductsUnfiltered(allProducts, visibleProductIds) == allProducts

\* allProducts.filter(p => visibleProductIds.has(p.id))
visibleProductsOf(allProducts, visibleProductIds) ==
  SelectSeq(allProducts, LAMBDA p : p.id \in visibleProductIds)

\* The intermediate structure: the product and its position.
itemOf(p) ==
  LET rgb == hexToRgb(p.hex) IN [product |-> p, x |-> rgb.r, y |-> rgb.g, z |-> rgb.b]

\* A variant of distLess that compares the squared distance with the threshold.
distLessSquared(cluster, item, THRESHOLD) ==
  LET L == Lcm(Lcm(cluster.x.den, cluster.y.den), cluster.z.den)
      dx == (cluster.x.num * (L \div cluster.x.den)) - item.x * L
      dy == (cluster.y.num * (L \div cluster.y.den)) - item.y * L
      dz == (cluster.z.num * (L \div cluster.z.den)) - item.z * L
  IN dx * dx + dy * dy + dz * dz < THRESHOLD * L * L

\* dist < THRESHOLD for dist = Math.sqrt(dx*dx + dy*dy + dz*dz), the distance
\* of the item to the center of the cluster: both sides squared, over the
\* common denominator L of the center.
distLess(cluster, item, THRESHOLD) ==
  LET L == Lcm(Lcm(cluster.x.den, cluster.y.den), cluster.z.den)
      dx == (cluster.x.num * (L \div cluster.x.den)) - item.x * L
      dy == (cluster.y.num * (L \div cluster.y.den)) - item.y * L
      dz == (cluster.z.num * (L \div cluster.z.den)) - item.z * L
  IN dx * dx + dy * dy + dz * dz < THRESHOLD * THRESHOLD * L * L

\* A variant of reaverage that takes the middle of the center and the item.
reaverageMiddle(c, v, n) == Frac(c.num + v * c.den, c.den * 2)

\* ((c * (n - 1)) + v) / n
reaverage(c, v, n) == Frac(c.num * (n - 1) + v * c.den, c.den * n)

\* cluster.products.push(item.product) and the re-averaging of the center.
addToCluster(cluster, item) ==
  LET n == Len(cluster.products) + 1 IN
  [products |-> Append(cluster.products, item.product),
   x |-> reaverage(cluster.x, item.x, n),
   y |-> reaverage(cluster.y, item.y, n),
   z |-> reaverage(cluster.z, item.z, n)]

\* clusters.push({ products: [item.product], x, y, z })
newCluster(item) ==
  [products |-> <<item.product>>,
   x |-> Frac(item.x, 1), y |-> Frac(item.y, 1), z |-> Frac(item.z, 1)]

\* A variant of placeItem where the item joins the last cluster of the list
\* whose center is nearer than the threshold.
placeItemLastFit(clusters, item, THRESHOLD) ==
  LET near == {k \in 1..Len(clusters) : distLess(clusters[k], item, THRESHOLD)} IN
  IF near # {}
  THEN LET last == CHOOSE k \in near : \A m \in near : m <= k
       IN [clusters EXCEPT ![last] = addToCluster(clusters[last], item)]
  ELSE Append(clusters, newCluster(item))

\* One iteration of the loop over the items: the item joins the first cluster
\* of the list whose center is nearer than the threshold, else opens one.
placeItem(clusters, item, THRESHOLD) ==
  LET near == {k \in 1..Len(clusters) : distLess(clusters[k], item, THRESHOLD)} IN
  IF near # {}
  THEN LET first == CHOOSE k \in near : \A m \in near : k <= m
       IN [clusters EXCEPT ![first] = addToCluster(clusters[first], item)]
  ELSE Append(clusters, newCluster(item))

\* The greedy loop over the sorted items.
RECURSIVE greedyClusters(_, _)
greedyClusters(list, THRESHOLD) ==
  IF list = <<>> THEN <<>>
  ELSE placeItem(greedyClusters(SubSeq(list, 1, Len(list) - 1), THRESHOLD),
                 list[Len(list)], THRESHOLD)

\* THRESHOLD is the clusterThreshold of the render.
renderNodes(allProducts, visibleProductIds, THRESHOLD) ==
  LET visibleProducts == visibleProductsOf(allProducts, visibleProductIds)
      mapped == [k \in 1..Len(visibleProducts) |-> itemOf(visibleProducts[k])]
  IN greedyClusters(sortById(mapped), THRESHOLD)

\* ------------------------------------------------------------------
\* The scene: level of detail and memoised clustering (SceneContent)
\* ------------------------------------------------------------------

\* The threshold the frame callback picks for a distance.
newThresholdFor(d) ==
  IF d > 800 THEN 45
  ELSE IF d > 500 THEN 30
  ELSE IF d > 300 THEN 15
  ELSE 4

\* A variant of renderMemo whose dependencies leave out the threshold.
renderMemoWithoutThreshold(m, props, threshold) ==
  IF <<props.allProducts, props.visibleProductIds>> = <<m.deps[1], m.deps[2]>>
  THEN m
  ELSE [deps |-> <<props.allProducts, props.visibleProductIds, threshold>>,
        nodes |-> renderNodes(props.allProducts, props.visibleProductIds, threshold)]

\* useMemo(() => {...}, [allProducts, visibleProductIds, clusterThreshold]) at
\* a render: the stored value when no dependency changed, else the clusters
\* computed anew.
renderMemo(m, props, threshold) ==
  LET deps == <<props.allProducts, props.visibleProductIds, threshold>>
  IN IF deps = m.deps THEN m
     ELSE [deps |-> deps,
           nodes |-> renderNodes(props.allProducts, props.visibleProductIds, threshold)]

\* The distances the camera can be at (the controls keep it within 50 and
\* 1200): the ends, each breakpoint and the integer after it, and the start.
Distances == {50, 300, 301, 500, 501, InitialDistance, 800, 801, 1200}

\* The props the application hands to the scene.
SceneEntries ==
  << [id |-> <<"a">>, hex |-> <<"#","0","0","0","0","0","0">>],
     [id |-> <<"b">>, hex |-> <<"#","0","4","0","4","0","4">>],
     [id |-> <<"c">>, hex |-> <<"#","c","8","c","8","c","8">>] >>

ScenePropsSet ==
  {[allProducts |-> SubSeq(SceneEntries, 1, n), visibleProductIds |-> v] :
     n \in 0..3, v \in {{}, {<<"a">>, <<"b">>}, {<<"a">>, <<"b">>, <<"c">>}}}

\* The user orbits or zooms: the controls move the camera.
CameraMoves ==
  /\ \E d \in Distances :
       /\ d # dist
       /\ dist' = d
  /\ lastEvent' = [kind |-> "camera", threshold |-> clusterThreshold, recomputed |-> FALSE]
  /\ UNCHANGED <<clusterThreshold, sceneProps, memo>>
  /\ UNCHANGED runVars
  /\ UNCHANGED fnVars
  /\ UNCHANGED selectVars
  /\ UNCHANGED lifeVars
  /\ UNCHANGED hoverVars

\* The useFrame callback, and the render that follows a change of state.
Frame ==
  /\ LET newThreshold == newThresholdFor(dist)
         rendered == renderMemo(memo, sceneProps, newThreshold)
     IN /\ clusterThreshold' = newThreshold
        /\ memo' = rendered
        /\ lastEvent' = [kind |-> "frame", threshold |-> clusterThreshold,
                         recomputed |-> rendered.deps # memo.deps]
  /\ UNCHANGED <<dist, sceneProps>>
  /\ UNCHANGED runVars
  /\ UNCHANGED fnVars
  /\ UNCHANGED selectVars
  /\ UNCHANGED lifeVars
  /\ UNCHANGED hoverVars

\* The application renders the scene with another product collection or
\* another set of visible ids.
PropsChange ==
  /\ \E p \in ScenePropsSet :
       /\ p # sceneProps
       /\ sceneProps' = p
       /\ LET rendered == renderMemo(memo, p, clusterThreshold)
          IN /\ memo' = rendered
             /\ lastEvent' = [kind |-> "props", threshold |-> clusterThreshold,
                              recomputed |-> rendered.deps # memo.deps]
  /\ UNCHANGED <<clusterThreshold, dist>>
  /\ UNCHANGED runVars
  /\ UNCHANGED fnVars
  /\ UNCHANGED selectVars
  /\ UNCHANGED lifeVars
  /\ UNCHANGED hoverVars

\* ------------------------------------------------------------------
\* The record loop on long lists
\* ------------------------------------------------------------------

\* n times the record r.
Repeat(r, n) == [k \in 1..n |-> r]

\* Long record lists: nothing or one valid record, then a stretch of null
\* records, of records without hex, of records with an invalid hex, or of
\* records of one and the same id.
LongLists ==
  {head \o Repeat(r, n) :
     head \in {<<>>, <<ItRed>>},
     r \in {JNull, ItNoHex, ItBadHex, ItRedAgain},
     n \in 1..MaxRecords}

\* fetchPolymakerData at the entry of the for loop, the first strategy having
\* returned the list.
InitLoop ==
  /\ items \in LongLists
  /\ pc = "loop"
  /\ att = [s \in StrategyIds |-> IF s = 1 THEN "ok" ELSE "none"]
  /\ timer = [s \in StrategyIds |-> FALSE]
  /\ started = <<1>>
  /\ undecodable = [s \in StrategyIds |-> "no"]
  /\ produced = [s \in StrategyIds |-> IF s = 1 THEN JArr(items) ELSE Undefined]
  /\ chain = "returned"
  /\ rawData = JArr(items)
  /\ pos = 1
  /\ processedIds = {}
  /\ count = 0
  /\ trace = <<Progress("Connecting to API...", 0), Progress("Processing items...", 0)>>
  /\ raised = <<>>
  /\ products = <<>>
  /\ error = NoError
  /\ loading = TRUE
  /\ refreshed = FALSE
  /\ call = NoCall
  /\ out = NoResult
  /\ UiInit

\* ------------------------------------------------------------------
\* The category selection
\* ------------------------------------------------------------------

\* The products of a run, by id and category.
SelectProducts ==
  { [id |-> "1", category |-> "ABS"], [id |-> "2", category |-> "ABS"],
    [id |-> "3", category |-> "PLA"], [id |-> "4", category |-> "PETG"] }

\* The categories of those products in the order of Array.prototype.sort
\* (by UTF-16 code units).
CategoriesSorted == <<"ABS", "PETG", "PLA">>

\* list.includes(c)
Includes(list, c) == \E k \in 1..Len(list) : list[k] = c

\* list.sort() of a list of categories without repetition.
sortCategories(list) ==
  LET kept(c) == Includes(list, c) IN SelectSeq(CategoriesSorted, kept)

\* uniqueCategories: the categories of the products, sorted.
uniqueCategories ==
  LET counted(c) == \E k \in 1..Len(arrived) : arrived[k].category = c
  IN SelectSeq(CategoriesSorted, counted)

\* The product callback of initDataFetch: the product is appended unless its
\* id is there, and its category is selected unless it is selected. The
\* service calls it once for an id in a run.
OnProductArrives(newProduct) ==
  /\ \A k \in 1..Len(arrived) : arrived[k].id # newProduct.id
  /\ arrived' = IF \E k \in 1..Len(arrived) : arrived[k].id = newProduct.id
                 THEN arrived
                 ELSE Append(arrived, newProduct)
  /\ selectedCategories' =
       IF ~Includes(selectedCategories, newProduct.category)
       THEN sortCategories(Append(selectedCategories, newProduct.category))
       ELSE selectedCategories

ProductArrives ==
  /\ \E newProduct \in SelectProducts : OnProductArrives(newProduct)
  /\ UNCHANGED runVars
  /\ UNCHANGED fnVars
  /\ UNCHANGED sceneVars
  /\ UNCHANGED lifeVars
  /\ UNCHANGED hoverVars

\* handleToggleCategory, from a button of the panel (one for each of
\* uniqueCategories).
handleToggleCategory ==
  /\ \E k \in 1..Len(uniqueCategories) :
       LET category == uniqueCategories[k]
           others(c) == c # category
       IN selectedCategories' =
            IF Includes(selectedCategories, category)
            THEN SelectSeq(selectedCategories, others)
            ELSE Append(selectedCategories, category)
  /\ UNCHANGED arrived
  /\ UNCHANGED runVars
  /\ UNCHANGED fnVars
  /\ UNCHANGED sceneVars
  /\ UNCHANGED lifeVars
  /\ UNCHANGED hoverVars

handleSelectAllCategories ==
  /\ selectedCategories' = uniqueCategories
  /\ UNCHANGED arrived
  /\ UNCHANGED runVars
  /\ UNCHANGED fnVars
  /\ UNCHANGED sceneVars
  /\ UNCHANGED lifeVars
  /\ UNCHANGED hoverVars

handleClearAllCategories ==
  /\ selectedCategories' = <<>>
  /\ UNCHANGED arrived
  /\ UNCHANGED runVars
  /\ UNCHANGED fnVars
  /\ UNCHANGED sceneVars
  /\ UNCHANGED lifeVars
  /\ UNCHANGED hoverVars

\* ------------------------------------------------------------------
\* The ingestion runs of the application
\* ------------------------------------------------------------------

\* The ids a run may emit.
RunProductIds == {"1", "2", "3"}

\* The runs in progress.
InProgress == DOMAIN runs

\* initDataFetch up to its await: loading, no error, no product, and a new
\* call of fetchPolymakerData in progress.
initDataFetch ==
  /\ runsStarted < MaxStarts
  /\ loading' = TRUE
  /\ error' = NoError
  /\ products' = <<>>
  /\ runsStarted' = runsStarted + 1
  /\ runs' = runs @@ (runsStarted + 1 :> {})

\* The effect of the initial load: it runs when the application is mounted
\* (twice under StrictMode) and calls initDataFetch when the flag is not set.
InitialLoad ==
  /\ effectsRun < MaxEffects
  /\ effectsRun' = effectsRun + 1
  /\ IF ~hasLoadedRef
     THEN /\ hasLoadedRef' = TRUE
          /\ initialLoads' = initialLoads + 1
          /\ initDataFetch
     ELSE /\ UNCHANGED <<hasLoadedRef, initialLoads, runs, runsStarted>>
          /\ UNCHANGED appVars
  /\ UNCHANGED fetchVars
  /\ UNCHANGED fnVars
  /\ UNCHANGED <<sceneVars, selectVars, hoverVars>>

\* The effects of the first render have run: React runs the pending effects
\* of a render before it handles a click.
Mounted == effectsRun >= 1

\* The refresh button of the panel can be clicked.
RefreshAlwaysEnabled == TRUE

RefreshEnabled == ~loading

\* The error overlay with its Try Again button is shown.
OverlayShown == ~loading /\ error # NoError /\ Len(products) = 0

\* A click on the refresh button: handleRefresh.
ClickRefresh ==
  /\ Mounted
  /\ RefreshEnabled
  /\ initDataFetch
  /\ UNCHANGED <<hasLoadedRef, effectsRun, initialLoads>>
  /\ UNCHANGED fetchVars
  /\ UNCHANGED fnVars
  /\ UNCHANGED <<sceneVars, selectVars, hoverVars>>

\* A click on Try Again: handleRefresh.
ClickTryAgain ==
  /\ Mounted
  /\ OverlayShown
  /\ initDataFetch
  /\ UNCHANGED <<hasLoadedRef, effectsRun, initialLoads>>
  /\ UNCHANGED fetchVars
  /\ UNCHANGED fnVars
  /\ UNCHANGED <<sceneVars, selectVars, hoverVars>>

\* A run in progress emits an entity of an id it has not emitted: the product
\* callback appends it unless the id is in the collection.
RunEmits ==
  /\ \E r \in InProgress : \E id \in RunProductIds \ runs[r] :
       /\ runs' = [runs EXCEPT ![r] = @ \cup {id}]
       /\ products' = IF \E k \in 1..Len(products) : products[k].id = id
                      THEN products
                      ELSE Append(products, [run |-> r, id |-> id])
  /\ UNCHANGED <<error, loading>>
  /\ UNCHANGED <<hasLoadedRef, runsStarted, effectsRun, initialLoads>>
  /\ UNCHANGED fetchVars
  /\ UNCHANGED fnVars
  /\ UNCHANGED <<sceneVars, selectVars, hoverVars>>

\* A run that has emitted returns: the finally of initDataFetch.
RunCompletes ==
  /\ \E r \in InProgress :
       /\ runs[r] # {}
       /\ runs' = [q \in InProgress \ {r} |-> runs[q]]
  /\ loading' = FALSE
  /\ UNCHANGED <<products, error>>
  /\ UNCHANGED <<hasLoadedRef, runsStarted, effectsRun, initialLoads>>
  /\ UNCHANGED fetchVars
  /\ UNCHANGED fnVars
  /\ UNCHANGED <<sceneVars, selectVars, hoverVars>>

\* A run raises: the catch and the finally of initDataFetch.
RunFails ==
  /\ \E r \in InProgress : runs' = [q \in InProgress \ {r} |-> runs[q]]
  /\ error' = "Failed to fetch data from Polymaker."
  /\ loading' = FALSE
  /\ UNCHANGED products
  /\ UNCHANGED <<hasLoadedRef, runsStarted, effectsRun, initialLoads>>
  /\ UNCHANGED fetchVars
  /\ UNCHANGED fnVars
  /\ UNCHANGED <<sceneVars, selectVars, hoverVars>>

\* ------------------------------------------------------------------
\* The hover of the nodes and the tooltip
\* ------------------------------------------------------------------

\* The nodes of the scene, each named by the id of its first product.
HoverNodes == {"A", "B"}

\* setTimeout(clear, 300): a new timer, kept in hoverTimeoutRef whatever it
\* holds.
ScheduleClear ==
  /\ timersSet < MaxTimers
  /\ timersSet' = timersSet + 1
  /\ pendingTimers' = pendingTimers \cup {timersSet + 1}
  /\ hoverTimeoutRef' = timersSet + 1

\* handleNodeHover(hoveredItems) with the products of node n.
HoverNode(n) ==
  /\ IF currentHoverIdRef # n
     THEN /\ currentHoverIdRef' = n
          /\ quickViewProduct' = NoNode
          /\ hoveredProducts' = n
     ELSE UNCHANGED <<currentHoverIdRef, quickViewProduct, hoveredProducts>>
  /\ IF hoverTimeoutRef # 0
     THEN /\ pendingTimers' = pendingTimers \ {hoverTimeoutRef}
          /\ hoverTimeoutRef' = 0
     ELSE UNCHANGED <<pendingTimers, hoverTimeoutRef>>
  /\ UNCHANGED timersSet

\* handleNodeHover(null)
HoverNothing ==
  /\ ScheduleClear
  /\ UNCHANGED <<currentHoverIdRef, quickViewProduct, hoveredProducts>>

\* The tooltip is rendered.
TooltipShown == hoveredProducts # NoNode

\* handlePointerOver of a node: the pointer comes onto it.
handlePointerOver ==
  /\ pointerOn = "none"
  /\ \E n \in HoverNodes :
       /\ HoverNode(n)
       /\ pointerOn' = n
  /\ UNCHANGED runVars
  /\ UNCHANGED fnVars
  /\ UNCHANGED <<sceneVars, selectVars, lifeVars>>

\* handlePointerOut of the node the pointer is on.
handlePointerOut ==
  /\ pointerOn \in HoverNodes
  /\ HoverNothing
  /\ pointerOn' = "none"
  /\ UNCHANGED runVars
  /\ UNCHANGED fnVars
  /\ UNCHANGED <<sceneVars, selectVars, lifeVars>>

\* onPointerMissed of the canvas: a click that hits no node.
onPointerMissed ==
  /\ pointerOn = "none"
  /\ HoverNothing
  /\ UNCHANGED pointerOn
  /\ UNCHANGED runVars
  /\ UNCHANGED fnVars
  /\ UNCHANGED <<sceneVars, selectVars, lifeVars>>

\* onMouseEnter of the tooltip: clearTimeout of the timer of the ref, which
\* keeps its value.
TooltipMouseEnter ==
  /\ TooltipShown
  /\ pointerOn = "none"
  /\ pointerOn' = "tooltip"
  /\ pendingTimers' = IF hoverTimeoutRef # 0
                       THEN pendingTimers \ {hoverTimeoutRef}
                       ELSE pendingTimers
  /\ UNCHANGED <<hoveredProducts, quickViewProduct, hoverTimeoutRef,
                 currentHoverIdRef, timersSet>>
  /\ UNCHANGED runVars
  /\ UNCHANGED fnVars
  /\ UNCHANGED <<sceneVars, selectVars, lifeVars>>

\* onMouseLeave of the tooltip.
TooltipMouseLeave ==
  /\ TooltipShown
  /\ pointerOn = "tooltip"
  /\ pointerOn' = "none"
  /\ ScheduleClear
  /\ UNCHANGED <<currentHoverIdRef, quickViewProduct, hoveredProducts>>
  /\ UNCHANGED runVars
  /\ UNCHANGED fnVars
  /\ UNCHANGED <<sceneVars, selectVars, lifeVars>>

\* A click on a product of the tooltip of a cluster: setQuickViewProduct.
QuickView ==
  /\ TooltipShown
  /\ pointerOn = "tooltip"
  /\ quickViewProduct = NoNode
  /\ quickViewProduct' = hoveredProducts
  /\ UNCHANGED <<hoveredProducts, hoverTimeoutRef, currentHoverIdRef,
                 pendingTimers, timersSet, pointerOn>>
  /\ UNCHANGED runVars
  /\ UNCHANGED fnVars
  /\ UNCHANGED <<sceneVars, selectVars, lifeVars>>

\* A pending timer fires, 300 ms after it was set: the tooltip is cleared
\* (and with it goes the pointer's being on it).
TimerFires ==
  /\ \E t \in pendingTimers : pendingTimers' = pendingTimers \ {t}
  /\ hoveredProducts' = NoNode
  /\ quickViewProduct' = NoNode
  /\ currentHoverIdRef' = NoNode
  /\ pointerOn' = IF pointerOn = "tooltip" THEN "none" ELSE pointerOn
  /\ UNCHANGED <<hoverTimeoutRef, timersSet>>
  /\ UNCHANGED runVars
  /\ UNCHANGED fnVars
  /\ UNCHANGED <<sceneVars, selectVars, lifeVars>>

\* ------------------------------------------------------------------
\* Calls of the pure functions
\* ------------------------------------------------------------------

\* The strings of length 0..n over the characters of alphabet.
Strings(alphabet, n) == UNION {[1..k -> alphabet] : k \in 0..n}

\* The hex strings handed to hexToRgb: short strings over a few digits, a
\* non-digit and '#', and longer colors, with and without '#', of every length
\* the ingestion accepts and beyond.
HexStrings ==
  Strings({"0", "a", "F", "g", "#"}, 3)
    \cup {<<"#">> \o t : t \in Strings({"0", "a", "F", "g"}, 4)}
    \cup { <<"f","f","0","0","0","0">>, <<"#","F","F","0","0","0","0">>,
           <<"#","0","0","f","F","0","0">>, <<"#","c","8","c","8","c","8">>,
           <<"#","0","2","0","2","0","2">>, <<"#","0","0","0","0","0","0">>,
           <<"#","1","2","3","4","5">>, <<"1","2","3","4","5","6","7">>,
           <<"#","F","F","0","0","0","0","8","0">>,
           <<"#","1","2","3","4","5","6","7","8","9">>,
           <<"#","f","f","0","0","z","z">>, <<" ","f","f","0","0","0","0">>,
           <<"r","e","d">> }

\* The hex strings of the members of a node.
MemberHexes ==
  { <<"#","f","f","0","0","0","0">>, <<"#","0","0","F","F","0","0">>,
    <<"#","0","1","0","0","0","0">>, <<"#","0","0","0">>,
    <<"#","c","8","c","8","c","8">>, <<"#","a","b","c","d">> }

\* The ids of the entries handed to the clustering.
EntryIds == {<<LowerLetters[k]>> : k \in 1..MaxEntries}

\* Their colors: black, two near blacks and a light grey.
EntryHexes ==
  { <<"#","0","0","0","0","0","0">>, <<"#","0","2","0","2","0","2">>,
    <<"#","0","4","0","4","0","4">>, <<"#","c","8","c","8","c","8">> }

\* Colors on the red axis: black, and reds at distance 3 and 4 of it.
AxisHexes ==
  { <<"#","0","0","0","0","0","0">>, <<"#","0","3","0","0","0","0">>,
    <<"#","0","4","0","0","0","0">> }

\* The entry collections: sequences of entries with pairwise distinct ids,
\* supplied in descending or in ascending order of id, and sequences of
\* entries on the red axis supplied in ascending order of id.
EntryLists ==
  UNION {{l \in [1..n -> [id : EntryIds, hex : EntryHexes]] :
            \/ \A i, j \in 1..n : i < j => localeCompareLess(l[j].id, l[i].id)
            \/ \A i, j \in 1..n : i < j => localeCompareLess(l[i].id, l[j].id)} :
         n \in 0..MaxEntries}
    \cup
  UNION {{l \in [1..n -> [id : EntryIds, hex : AxisHexes]] :
            \A i, j \in 1..n : i < j => localeCompareLess(l[i].id, l[j].id)} :
         n \in 0..MaxEntries}

\* The visible-id sets: every id, or every id but one.
VisibleSets == {EntryIds} \cup {EntryIds \ {h} : h \in EntryIds}

\* The thresholds: two of the levels of detail and the one of the scenario.
Thresholds == {4, 15, 400}

\* {"name":"","color":"Red"}: a name key holding the empty string
ItEmptyName ==
  Rec(<<"name", "color">>, [name |-> JStr(<<>>), color |-> JStr(<<"R","e","d">>)])

\* The decoded values handed to the decoder: the payloads, objects with
\* several of the conventional keys, with a conventional key that holds no
\* array, dictionaries whose first value is a list, a scalar or a record with
\* an empty name, and scalars.
DecoderInputs ==
  Payloads
    \cup {JObj(<<"items", "data">>, [items |-> JArr(<<a>>), data |-> JArr(<<b>>)]) :
            a, b \in {ItRed, ItDerived}}
    \cup {JObj(<<"items", "products">>, [items |-> JArr(<<a>>), products |-> JArr(<<b>>)]) :
            a, b \in {ItRed, ItDerived}}
    \cup {JObj(<<"data", "items">>, [data |-> d, items |-> JArr(<<ItRed>>)]) :
            d \in {JStr(<<"o","k">>), JNull, ItRed}}
    \cup {Dictionary(<<f, ItRed>>) :
            f \in {ItEmptyName, JArr(<<ItRed>>), JStr(<<"X">>), JNull}}
    \cup {JObj(<<>>, <<>>), JStr(<<>>), JStr(<<"o","k">>), JNum(<<"0">>), JNum(<<"5">>)}

\* The category fields and product names handed to the classifier: texts
\* naming one material, several, or none, in either case of letters, and the
\* values a JSON record can hold in their place.
CategoryTexts ==
  { <<>>, <<"P","L","A">>, <<"p","l","a">>, <<"P","E","T","G">>, <<"A","B","S">>,
    <<"A","S","A">>, <<"T","P","U">>, <<"F","l","e","x">>, <<"N","y","l","o","n">>,
    <<"P","A","6">>, <<"P","A","1","2">>,
    <<"P","A","1","2"," ","N","y","l","o","n"," ","B","l","e","n","d">>,
    <<"P","C">>, <<"P","C","-","A","B","S">>, <<"P","V","B">>, <<"W","o","o","d">>,
    <<"S","i","l","k">>, <<"W","o","o","d"," ","P","L","A">> }

CategoryValues ==
  {JStr(s) : s \in CategoryTexts} \cup {Undefined, JNull, JNum(<<"0">>), JNum(<<"5">>)}

\* The values a record may hold under transmission_distance and under td:
\* none (undefined), null, the empty string, the text "null", a numeric text
\* and numbers.
TdValues ==
  {Undefined, JNull, JStr(<<>>), JStr(<<"n","u","l","l">>), JStr(<<"2",".","5">>),
   JNum(<<"1",".","5">>), JNum(<<"0">>)}

\* The record holding a under transmission_distance and b under td, a key
\* being left out when its value is undefined.
TdRecord(a, b) ==
  LET keys == SelectSeq(<<"transmission_distance", "td">>,
                        LAMBDA k : IF k = "td" THEN b # Undefined ELSE a # Undefined)
  IN Rec(keys, [k \in {keys[i] : i \in 1..Len(keys)} |-> IF k = "td" THEN b ELSE a])

\* The calls the model makes.
Calls ==
  {[fn |-> "hexToRgb", hex |-> h] : h \in HexStrings}
    \cup {[fn |-> "displayColor", hexes |-> h] : h \in UNION {[1..n -> MemberHexes] : n \in 1..MaxMembers}}
    \cup {[fn |-> "renderNodes", allProducts |-> l, visibleProductIds |-> v,
            clusterThreshold |-> t] :
             l \in EntryLists, v \in VisibleSets, t \in Thresholds}
    \cup {[fn |-> "findArrayInObject", obj |-> v] : v \in DecoderInputs}
    \cup {[fn |-> "parseCategory", val |-> v, productName |-> n] :
             v \in CategoryValues, n \in CategoryValues}
    \cup {[fn |-> "td", item |-> TdRecord(a, b)] : a \in TdValues, b \in TdValues}

\* The state in which a call is about to be made: no ingestion run.
InitCalls ==
  /\ pc = "idle"
  /\ att = [s \in StrategyIds |-> "none"]
  /\ timer = [s \in StrategyIds |-> FALSE]
  /\ started = <<>>
  /\ undecodable = [s \in StrategyIds |-> "no"]
  /\ produced = [s \in StrategyIds |-> Undefined]
  /\ chain = "idle"
  /\ rawData = Undefined
  /\ items = <<>>
  /\ pos = 1
  /\ processedIds = {}
  /\ count = 0
  /\ trace = <<>>
  /\ raised = <<>>
  /\ products = <<>>
  /\ error = NoError
  /\ loading = FALSE
  /\ refreshed = FALSE
  /\ call \in Calls
  /\ out = NoResult
  /\ UiInit

CallHexToRgb ==
  /\ call.fn = "hexToRgb"
  /\ out = NoResult
  /\ out' = Returned(hexToRgb(call.hex))
  /\ UNCHANGED call
  /\ UNCHANGED runVars
  /\ UNCHANGED uiVars

CallDisplayColor ==
  /\ call.fn = "displayColor"
  /\ out = NoResult
  /\ out' = Returned(displayColor(call.hexes))
  /\ UNCHANGED call
  /\ UNCHANGED runVars
  /\ UNCHANGED uiVars

CallRenderNodes ==
  /\ call.fn = "renderNodes"
  /\ out = NoResult
  /\ out' = Returned(renderNodes(call.allProducts, call.visibleProductIds,
                                 call.clusterThreshold))
  /\ UNCHANGED call
  /\ UNCHANGED runVars
  /\ UNCHANGED uiVars

CallFindArrayInObject ==
  /\ call.fn = "findArrayInObject"
  /\ out = NoResult
  /\ out' = Returned(findArrayInObject(call.obj))
  /\ UNCHANGED call
  /\ UNCHANGED runVars
  /\ UNCHANGED uiVars

CallParseCategory ==
  /\ call.fn = "parseCategory"
  /\ out = NoResult
  /\ out' = IF parseCategoryThrows(call.val, call.productName)
            THEN [kind |-> "throw", error |-> TypeError]
            ELSE Returned(parseCategory(call.val, call.productName))
  /\ UNCHANGED call
  /\ UNCHANGED runVars
  /\ UNCHANGED uiVars

CallTdOf ==
  /\ call.fn = "td"
  /\ out = NoResult
  /\ out' = Returned(tdOf(call.item))
  /\ UNCHANGED call
  /\ UNCHANGED runVars
  /\ UNCHANGED uiVars

\* ------------------------------------------------------------------
\* Properties
\* ------------------------------------------------------------------

\* The elements of a sequence.
Range(seq) == {seq[k] : k \in 1..Len(seq)}

\* The positions of the trace holding an onProductFound call.
FoundAt == {k \in 1..Len(trace) : trace[k].e = "onProductFound"}

\* The positions of the trace where a record is examined.
ExamineAt == {k \in 1..Len(trace) : trace[k].e = "item"}

\* The run of fetchPolymakerData is over: it completed or it raised.
Ended == pc \in {"done", "raised"}

\* C1: the strategies are attempted one at a time in the fixed order wrapping
\* proxy, direct, alternate proxy; each at most once per run; one is started
\* only when all before it have failed; none is started after one succeeded.
C1_StrategiesInOrder ==
  /\ Strategies = <<"AllOrigins", "Direct", "CorsProxy">>
  /\ Len(started) <= Len(Strategies)
  /\ \A k \in 1..Len(started) : started[k] = k
  /\ \A s \in StrategyIds : att[s] # "none" <=> s \in Range(started)
  /\ Cardinality(InFlight) <= 1
  /\ \A s \in Range(started) : \A r \in 1..(s - 1) : att[r] = "failed"
  /\ \A s \in StrategyIds :
       att[s] = "ok" => /\ InFlight = {}
                        /\ started[Len(started)] = s
                        /\ \A r \in (s + 1)..Len(Strategies) : att[r] = "none"

\* The direct request failed, so did the wrapping proxy before it, and the
\* alternate proxy is in flight.
C1_Witness ==
  /\ started = <<1, 2, 3>>
  /\ att[1] = "failed"
  /\ att[2] = "failed"
  /\ att[3] = "fetch"

\* C2: fetchJsonRobust raises its aggregate error exactly when all three
\* strategies have failed; the failure of one strategy alone raises nothing;
\* when a strategy succeeds the chain returns the value of that strategy.
C2_AggregateIffAllFailed ==
  /\ chain = "raised" <=> \A s \in StrategyIds : att[s] = "failed"
  /\ ConnectError \in Range(raised) <=> chain = "raised"
  /\ chain = "raised" => pc = "raised" /\ raised = <<ConnectError>>
  /\ (\E s \in StrategyIds : att[s] # "failed") /\ chain # "returned"
       => raised = <<>> /\ pc \in {"idle", "acquire"}
  /\ chain = "returned" <=> \E s \in StrategyIds : att[s] = "ok"
  /\ \A s \in StrategyIds : att[s] = "ok" => rawData = produced[s]

\* All three strategies failed and the aggregate error was raised.
C2_Witness ==
  /\ \A s \in StrategyIds : att[s] = "failed"
  /\ chain = "raised"
  /\ raised = <<ConnectError>>

\* A failed attempt of strategy s makes the chain advance: the next strategy
\* has been started, or, after the last one, the aggregate error was raised.
Advanced(s) ==
  /\ att[s] = "failed"
  /\ IF s < Len(Strategies) THEN att[s + 1] # "none" ELSE chain = "raised"

\* C3, as stated: a strategy whose response body is not decodable JSON is a
\* failed attempt and the chain advances; the chain never returns a result
\* that was not decoded from JSON.
C3_UndecodableBodyFails ==
  /\ \A s \in StrategyIds : undecodable[s] # "no" => Advanced(s)
  /\ chain = "returned" => rawData.t # "text"

\* C3, amended: a body that is not decodable JSON is a failed attempt and the
\* chain advances, for the direct and alternate-proxy strategies and for the
\* envelope of the wrapping proxy; when the envelope of the wrapping proxy is
\* JSON and carries a non-empty contents string that is not JSON, the attempt
\* succeeds and the chain returns that raw string, which is the only way the
\* chain returns undecoded text.
C3_UndecodableBodyFailsExceptContents ==
  /\ \A s \in StrategyIds : undecodable[s] = "body" => Advanced(s)
  /\ \A s \in StrategyIds :
       undecodable[s] = "contents" => /\ Strategies[s] = "AllOrigins"
                                      /\ att[s] = "ok"
                                      /\ chain = "returned"
                                      /\ rawData.t = "text"
                                      /\ rawData.segs # <<>>
  /\ chain = "returned" /\ rawData.t = "text"
       => att[1] = "ok" /\ undecodable[1] = "contents"

\* The alternate proxy answered with a body that is no JSON after the two
\* strategies before it failed, and the aggregate error was raised.
C3_Witness ==
  /\ undecodable[3] = "body"
  /\ att[3] = "failed"
  /\ chain = "raised"

\* C4: every strategy attempt is bounded by its timer for as long as it is
\* outstanding (until the body is read and parsed), so no attempt can stay
\* pending for ever.
C4_AttemptBoundedByTimer == \A s \in InFlight : timer[s]

\* C5: a run that located a non-empty record list completes if and only if
\* at least one entity was emitted; with none emitted it ends by raising the
\* "no valid hex codes" error, after the whole list was traversed.
C5_CompletesIffEmitted ==
  /\ pc = "done" => FoundAt # {}
  /\ Ended /\ items # <<>> =>
       /\ pc = "done" <=> FoundAt # {}
       /\ FoundAt = {} => raised = <<NoHexError>> /\ pos > Len(items)

\* C6: when no array is found in the payload, or the array found is empty, the
\* run raises the "no product list" error at once: no record is examined and
\* no entity is emitted.
C6_NoListRaisesAtOnce ==
  chain = "returned" /\ (LET found == findArrayInObject(rawData)
                         IN ~Truthy(found) \/ Len(found.a) = 0)
    => /\ pc = "raised"
       /\ raised = <<NoListError>>
       /\ items = <<>>
       /\ FoundAt = {}
       /\ ExamineAt = {}

\* The payload is an empty array and the run raised the error.
C6_Witness ==
  /\ chain = "returned"
  /\ rawData = JArr(<<>>)
  /\ raised = <<NoListError>>

\* The records of the list that have a valid hex and resolve to id.
Group(id) ==
  {i \in 1..Len(items) :
     Normalised[items[i]].kind = "entity" /\ Normalised[items[i]].product.id = id}

\* C7: no two emitted entities share an id; when several records with a valid
\* hex resolve to the same id, the run emits exactly one entity for them, the
\* one derived from the first of them in source order.
C7_OneEntityPerId ==
  /\ \A k, l \in FoundAt : trace[k].product.id = trace[l].product.id => k = l
  /\ Ended /\ items # <<>> =>
       \A i \in 1..Len(items) :
         Normalised[items[i]].kind = "entity" =>
           LET group == Group(Normalised[items[i]].product.id)
               first == CHOOSE j \in group : \A m \in group : j <= m
           IN Cardinality(group) > 1 =>
                /\ Cardinality({k \in FoundAt :
                     trace[k].product.id = Normalised[items[i]].product.id}) = 1
                /\ \E k \in FoundAt : trace[k].product = Normalised[items[first]].product

\* "#" followed by 3 to 8 hexadecimal digits, in either case.
IsHashHex(chars) ==
  /\ Len(chars) \in 4..9
  /\ chars[1] = "#"
  /\ \A k \in 2..Len(chars) :
       chars[k] \in {"0","1","2","3","4","5","6","7","8","9",
                     "a","b","c","d","e","f","A","B","C","D","E","F"}

\* The hex of a record as the claim reads it: the first non-empty of the
\* alternate fields, trimmed and "#"-prefixed; <<>> when all are missing.
ReadHex(item) ==
  LET fields == <<"hex_code", "hex", "hexcodes", "color_hex", "color_code", "value">>
      present == {k \in 1..Len(fields) :
                    fields[k] \in DOMAIN item.val /\ Truthy(item.val[fields[k]])}
  IN IF present = {} THEN <<>>
     ELSE LET raw == item.val[fields[CHOOSE k \in present : \A m \in present : k <= m]].s
              cut == trim(raw)
          IN IF cut # <<>> /\ cut[1] = "#" THEN cut ELSE <<"#">> \o cut

\* C8: the hex of every emitted entity is "#" and 3 to 8 hexadecimal digits; a
\* record whose hex is missing from all the alternate fields, or fails the
\* pattern, is never emitted and raises no error.
C8_OnlyValidHexEmitted ==
  /\ \A k \in FoundAt : IsHashHex(trace[k].product.hex)
  /\ \A k \in ExamineAt :
       LET item == items[trace[k].i] IN
       Truthy(item) /\ ~IsHashHex(ReadHex(item)) =>
         /\ ~(k < Len(trace) /\ trace[k + 1].e = "onProductFound")
         /\ ~(k = Len(trace) /\ pc = "raised")

\* The entities of the valid records of list, duplicates of an earlier one
\* left out, in source order.
RECURSIVE ValidOnce(_)
ValidOnce(list) ==
  IF list = <<>> THEN <<>>
  ELSE LET front == ValidOnce(SubSeq(list, 1, Len(list) - 1))
           r == Normalised[list[Len(list)]]
       IN IF r.kind = "entity" /\ \A k \in 1..Len(front) : front[k].id # r.product.id
          THEN Append(front, r.product)
          ELSE front

\* C9: onProductFound is invoked exactly once for each valid record that is
\* no duplicate, in source order, and each invocation takes place before
\* the next record is examined.
C9_EmittedOncePerValidRecordInOrder ==
  /\ \A k \in FoundAt :
       /\ k > 1
       /\ trace[k - 1].e = "item"
       /\ Normalised[items[trace[k - 1].i]].kind = "entity"
       /\ trace[k].product = Normalised[items[trace[k - 1].i]].product
  /\ Ended /\ items # <<>> =>
       LET calls == SelectSeq(trace, LAMBDA ev : ev.e = "onProductFound")
       IN [k \in 1..Len(calls) |-> calls[k].product] = ValidOnce(items)

\* C10: the "Loaded n colors" progress is reported exactly when the running
\* count of emitted entities reaches a multiple of 20, that is right after
\* the emission that brings the count to 20, 40, ...; never while no entity
\* was emitted, and never twice for the same count.
C10_ProgressEveryTwentyEmitted ==
  /\ \A k \in 1..Len(trace) :
       trace[k].e = "onProgress" /\ trace[k].status = "Loaded colors..." =>
         /\ trace[k].count > 0
         /\ trace[k].count % BatchSize = 0
         /\ k > 1
         /\ trace[k - 1].e = "onProductFound"
  /\ \A k \in FoundAt :
       Cardinality({l \in FoundAt : l <= k}) % BatchSize = 0 =>
         /\ k < Len(trace)
         /\ trace[k + 1].e = "onProgress"
         /\ trace[k + 1].status = "Loaded colors..."

\* C11: onProgress is called with count 0 before the first acquisition attempt
\* starts; in a run that completes normally the last callback is an onProgress
\* whose count is the total number of onProductFound calls; every onProgress
\* call carries the number of onProductFound calls made so far, so the counts
\* reported never decrease.
C11_ProgressCarriesEmittedCount ==
  /\ started # <<>> =>
       /\ trace # <<>>
       /\ trace[1].e = "onProgress"
       /\ trace[1].count = 0
  /\ pc = "done" =>
       /\ trace[Len(trace)].e = "onProgress"
       /\ trace[Len(trace)].count = Cardinality(FoundAt)
  /\ \A k \in 1..Len(trace) :
       trace[k].e = "onProgress" =>
         /\ trace[k].count = Cardinality({l \in FoundAt : l < k})
         /\ \A l \in 1..k : trace[l].e = "onProgress" => trace[l].count <= trace[k].count

\* A run over three records, one of them not emitted, completed normally after
\* two emissions.
C11_Witness ==
  /\ pc = "done"
  /\ Len(items) = 3
  /\ Cardinality(FoundAt) = 2
  /\ trace[Len(trace)] = Progress("Done!", 2)

\* C12: when the list holds at least one record normalizing to a valid entity
\* the run completes normally whatever the other records are: no single
\* record makes the run raise, and the records that are no valid entity are
\* neither emitted nor counted.
C12_NoRecordAbortsRun ==
  /\ TypeError \notin Range(raised)
  /\ Ended /\ items # <<>>
       /\ (\E i \in 1..Len(items) : Normalised[items[i]].kind = "entity")
       => /\ pc = "done"
          /\ count = Len(ValidOnce(items))
          /\ Cardinality(FoundAt) = count

\* The entities the calls of onProductFound of the current run handed over.
EmittedProducts ==
  LET calls == SelectSeq(trace, LAMBDA ev : ev.e = "onProductFound")
  IN [k \in 1..Len(calls) |-> calls[k].product]

\* C20: every refresh or retry re-runs the ingestion from scratch: when a run
\* starts the product collection is emptied and the previous error cleared
\* before any entity of the new run is added, so after a run completes the
\* collection holds exactly the entities that run emitted, in emission order,
\* with nothing carried over from an earlier run.
C20_RefreshStartsFromScratch ==
  /\ pc = "acquire" => products = <<>> /\ error = NoError
  /\ loading => error = NoError
  /\ pc # "idle" => products = EmittedProducts
  /\ pc = "done" => products = EmittedProducts /\ products # <<>> /\ error = NoError

\* A run started by a refresh completed with entities in the collection.
C20_Witness ==
  /\ refreshed
  /\ pc = "done"
  /\ Len(products) = 2

\* The ingestion validation pattern as the claim reads it: an optional '#'
\* followed by 3 to 8 hexadecimal digits.
MatchesValidation(str) ==
  LET d == AfterHash(str) IN
  /\ Len(d) \in 3..8
  /\ \A k \in 1..Len(d) : d[k] \in HexDigits

\* The channels the digits of a color string stand for: each of the first
\* three digits doubled in the short forms (3 digits, 4 with alpha), the first
\* three pairs in the long forms (6 digits, 8 with alpha).
ChannelsOf(str) ==
  LET d == AfterHash(str)
      V(c) == CHOOSE n \in 0..15 :
                c \in {<<"0","1","2","3","4","5","6","7","8","9","a","b","c","d","e","f">>[n + 1],
                       <<"0","1","2","3","4","5","6","7","8","9","A","B","C","D","E","F">>[n + 1]}
  IN IF Len(d) \in {3, 4}
     THEN [r |-> 17 * V(d[1]), g |-> 17 * V(d[2]), b |-> 17 * V(d[3])]
     ELSE [r |-> 16 * V(d[1]) + V(d[2]), g |-> 16 * V(d[3]) + V(d[4]),
           b |-> 16 * V(d[5]) + V(d[6])]

\* C19: for every string matching the ingestion validation pattern hexToRgb
\* yields a triple of integers in 0..255 decoded from the digits of the string
\* (the shorthand expanded by doubling each digit); for every other string it
\* yields an absent result, distinguishable from every color; it never throws.
C19_HexUtilityDecodesOrAbsent ==
  call.fn = "hexToRgb" /\ out # NoResult =>
    IF MatchesValidation(call.hex)
    THEN /\ out.kind = "value"
         /\ out.v \in [r : 0..255, g : 0..255, b : 0..255]
         /\ Len(AfterHash(call.hex)) \in {3, 4, 6, 8} => out.v = ChannelsOf(call.hex)
    ELSE /\ out.kind = "value"
         /\ out.v \notin [r : 0..255, g : 0..255, b : 0..255]

Orderings(list) ==
  {[k \in 1..Len(list) |-> list[p[k]]] : p \in Permutations(1..Len(list))}

\* The call made is a clustering call and it has returned.
Clustered == call.fn = "renderNodes" /\ out # NoResult

\* The members of all clusters of a result, one after the other.
RECURSIVE Members(_)
Members(clusters) ==
  IF clusters = <<>> THEN <<>>
  ELSE Members(SubSeq(clusters, 1, Len(clusters) - 1)) \o clusters[Len(clusters)].products

\* C15: for entries with unique ids, a visible-id set and a threshold, the
\* clustering result (the sequence of clusters, the member sequence and the
\* center of each) is the same for every ordering in which the entries are
\* supplied.
C15_ClusteringIgnoresInputOrder ==
  Clustered =>
    \A other \in Orderings(call.allProducts) :
      renderNodes(other, call.visibleProductIds, call.clusterThreshold) = out.v

\* Three visible entries supplied in an order that is not the order of their
\* ids, clustered into a pair and a singleton.
C15_Witness ==
  /\ Clustered
  /\ Len(call.allProducts) = 3
  /\ call.visibleProductIds = EntryIds
  /\ localeCompareLess(call.allProducts[3].id, call.allProducts[1].id)
  /\ Len(out.v) = 2
  /\ Len(out.v[1].products) = 2

\* C16: the clusters partition the visible subset: every entry whose id is
\* visible is a member of exactly one cluster, no other entry is a member of
\* any, no cluster is empty, and the sizes sum to the number of visible entries.
C16_ClustersPartitionVisible ==
  Clustered =>
    LET members == Members(out.v)
        visible == {p \in Range(call.allProducts) : p.id \in call.visibleProductIds}
    IN /\ \A p \in visible : Cardinality({k \in 1..Len(members) : members[k] = p}) = 1
       /\ \A k \in 1..Len(members) : members[k] \in visible
       /\ \A c \in 1..Len(out.v) : out.v[c].products # <<>>
       /\ Len(members) = Cardinality(visible)

\* Some entry is hidden, and the visible ones make two clusters.
C16_Witness ==
  /\ Clustered
  /\ \E k \in 1..Len(call.allProducts) :
       call.allProducts[k].id \notin call.visibleProductIds
  /\ Len(out.v) = 2

\* The hexes of the scenario: RGB (0,0,0), (2,2,2) and (200,200,200).
ScenarioBlack == <<"#","0","0","0","0","0","0">>
ScenarioNearBlack == <<"#","0","2","0","2","0","2">>
ScenarioGrey == <<"#","c","8","c","8","c","8">>

\* The call clusters exactly the three entries of the scenario, all visible.
Scenario ==
  /\ Clustered
  /\ Len(call.allProducts) = 3
  /\ {call.allProducts[k].hex : k \in 1..3} = {ScenarioBlack, ScenarioNearBlack, ScenarioGrey}
  /\ \A k \in 1..3 : call.allProducts[k].id \in call.visibleProductIds

\* The hexes of the members of a cluster.
HexesOf(cluster) == {cluster.products[k].hex : k \in 1..Len(cluster.products)}

\* C17: three visible entries at RGB (0,0,0), (2,2,2) and (200,200,200),
\* whatever their ids: with threshold 15 there are exactly two clusters, one
\* of (0,0,0) and (2,2,2) and one of (200,200,200) alone; with threshold 400
\* there is one cluster of all three.
C17_ScenarioClusters ==
  Scenario =>
    /\ call.clusterThreshold = 15 =>
         /\ Len(out.v) = 2
         /\ {HexesOf(out.v[1]), HexesOf(out.v[2])}
              = {{ScenarioBlack, ScenarioNearBlack}, {ScenarioGrey}}
         /\ {Len(out.v[1].products), Len(out.v[2].products)} = {1, 2}
    /\ call.clusterThreshold = 400 =>
         /\ Len(out.v) = 1
         /\ Len(out.v[1].products) = 3
         /\ HexesOf(out.v[1]) = {ScenarioBlack, ScenarioNearBlack, ScenarioGrey}

\* The scenario at threshold 400 with the grey entry processed first.
C17_Witness ==
  /\ Scenario
  /\ call.clusterThreshold = 400
  /\ out.v[1].products[1].hex = ScenarioGrey

\* The keys that make a value look like a record: the name keys and the
\* hex and color keys.
ProductLikeKeys == {"product_name", "name", "hex_code", "hex", "color_name"}

\* The conventional keys of a wrapped list, in the order they are tried.
ConventionalKeys == <<"data", "products", "items">>

\* The value has one of the keys.
HasProductLikeKey(v) == DOMAIN v.val \cap ProductLikeKeys # {}

\* The value holds something truthy under one of the keys.
HasTruthyProductLikeKey(v) == \E k \in ProductLikeKeys : Truthy(Get(v, k))

\* The result the decoder is to give for a decoded value, LooksLikeRecord
\* being the test made on the first value of an object.
DecoderResult(obj, LooksLikeRecord(_)) ==
  IF obj.t = "arr" THEN obj
  ELSE IF obj.t # "obj" THEN NotFound
  ELSE LET arrays == {k \in 1..3 : ConventionalKeys[k] \in DOMAIN obj.val
                                     /\ obj.val[ConventionalKeys[k]].t = "arr"}
           values == ObjectValues(obj)
       IN IF arrays # {}
          THEN obj.val[ConventionalKeys[CHOOSE k \in arrays : \A m \in arrays : k <= m]]
          ELSE IF /\ Len(values) > 0
                  /\ values[1].t = "obj"
                  /\ LooksLikeRecord(values[1])
               THEN JArr(values)
               ELSE NotFound

\* C13: the decoder returns an array as it is; for an object the first
\* array-valued property among data, products, items; else the values of the
\* object when its first value is an object having a name key or a hex or
\* color key; else not-found; and it never throws.
C13_DecoderFindsRecordList ==
  call.fn = "findArrayInObject" /\ out # NoResult =>
    out.kind = "value" /\ out.v = DecoderResult(call.obj, HasProductLikeKey)

\* C13, amended: as above, the values of an object being returned when its
\* first value is an object holding a truthy value under a name key or a hex
\* or color key.
C13_DecoderFindsRecordListWhenTruthy ==
  call.fn = "findArrayInObject" /\ out # NoResult =>
    out.kind = "value" /\ out.v = DecoderResult(call.obj, HasTruthyProductLikeKey)

\* The decoder was given {"0":{"name":"","color":"Red"},"1":{...}} and
\* answered not-found.
C13_Witness ==
  /\ call.fn = "findArrayInObject"
  /\ call.obj = Dictionary(<<ItEmptyName, ItRed>>)
  /\ out = Returned(NotFound)

\* The rules of the classifier in their order: the category, the texts
\* looked for in the category field and the product name, and the texts looked
\* for in the category field only.
CategoryRules ==
  << [category |-> "PLA", either |-> {<<"P","L","A">>}, fieldOnly |-> {}],
     [category |-> "PETG", either |-> {<<"P","E","T","G">>}, fieldOnly |-> {}],
     [category |-> "ABS", either |-> {<<"A","B","S">>}, fieldOnly |-> {}],
     [category |-> "ASA", either |-> {<<"A","S","A">>}, fieldOnly |-> {}],
     [category |-> "TPU", either |-> {<<"T","P","U">>}, fieldOnly |-> {<<"F","L","E","X">>}],
     [category |-> "Nylon", either |-> {<<"N","Y","L","O","N">>},
      fieldOnly |-> {<<"P","A","6">>, <<"P","A","1","2">>}],
     [category |-> "PC", either |-> {<<"P","C">>}, fieldOnly |-> {}],
     [category |-> "PVB", either |-> {<<"P","V","B">>}, fieldOnly |-> {}],
     [category |-> "Wood", either |-> {<<"W","O","O","D">>}, fieldOnly |-> {}] >>

\* The upper-cased text of an argument of the classifier, empty when the
\* argument holds no text.
UpperText(v) == IF v.t \in {"str", "num"} THEN toUpperCase(v.s) ELSE <<>>

RuleMatches(rule, field, name) ==
  \/ \E s \in rule.either : includes(field, s) \/ includes(name, s)
  \/ \E s \in rule.fieldOnly : includes(field, s)

\* The category of the first rule matched, Other when none is.
FirstRuleCategory(field, name) ==
  LET matched == {k \in 1..Len(CategoryRules) : RuleMatches(CategoryRules[k], field, name)}
  IN IF matched = {} THEN "Other"
     ELSE CategoryRules[CHOOSE k \in matched : \A m \in matched : k <= m].category

\* C14: the classifier is total and answers the category of the first rule,
\* in the order PLA, PETG, ABS, ASA, TPU/FLEX, Nylon/PA6/PA12, PC, PVB, Wood,
\* matched by the upper-cased category field or the upper-cased product name
\* (FLEX, PA6 and PA12 by the category field only), Other when no rule matches.
C14_ClassifierTotalFirstRuleWins ==
  call.fn = "parseCategory" /\ out # NoResult =>
    /\ out.kind = "value"
    /\ out.v = FirstRuleCategory(UpperText(call.val), UpperText(call.productName))

\* The point of an entry in color space.
PointOf(p) == ChannelsOf(p.hex)

\* The members of a cluster that were processed before entry p: those of
\* smaller id.
Earlier(cluster, p) ==
  SelectSeq(cluster.products, LAMBDA q : localeCompareLess(q.id, p.id))

\* The sums of the coordinates of the points of a sequence of entries.
SumR(members) == Sum([k \in 1..Len(members) |-> PointOf(members[k]).r])
SumG(members) == Sum([k \in 1..Len(members) |-> PointOf(members[k]).g])
SumB(members) == Sum([k \in 1..Len(members) |-> PointOf(members[k]).b])

\* The Euclidean distance of point pt from the mean point of a non-empty
\* sequence of entries is strictly less than limit (both sides squared and
\* multiplied by the square of the number of entries).
MeanNearerThan(members, pt, limit) ==
  LET n == Len(members)
      dx == SumR(members) - n * pt.r
      dy == SumG(members) - n * pt.g
      dz == SumB(members) - n * pt.b
  IN dx * dx + dy * dy + dz * dz < limit * limit * n * n

\* The clusters of a result that existed when p was processed and whose
\* centroid then was strictly nearer to p than the threshold.
JoinableFor(clusters, p, limit) ==
  {j \in 1..Len(clusters) :
     /\ Earlier(clusters[j], p) # <<>>
     /\ MeanNearerThan(Earlier(clusters[j], p), PointOf(p), limit)}

\* C21: points being processed in ascending id order, each point joins the
\* earliest-created cluster whose centroid at that moment is at distance
\* strictly less than the threshold, whether or not a later cluster is nearer,
\* and opens a new cluster located at the point exactly when no centroid is
\* strictly nearer than the threshold.
C21_FirstFitStrictlyBelowThreshold ==
  Clustered =>
    /\ \A c, d \in 1..Len(out.v) :
         c < d => localeCompareLess(out.v[c].products[1].id, out.v[d].products[1].id)
    /\ \A c \in 1..Len(out.v) : \A k \in 1..Len(out.v[c].products) :
         LET p == out.v[c].products[k]
             joinable == JoinableFor(out.v, p, call.clusterThreshold)
         IN /\ Earlier(out.v[c], p) = SubSeq(out.v[c].products, 1, k - 1)
            /\ IF k = 1 THEN joinable = {}
               ELSE joinable # {} /\ \A j \in joinable : c <= j
    /\ \A c \in 1..Len(out.v) :
         Len(out.v[c].products) = 1 =>
           LET pt == PointOf(out.v[c].products[1])
           IN /\ out.v[c].x = [num |-> pt.r, den |-> 1]
              /\ out.v[c].y = [num |-> pt.g, den |-> 1]
              /\ out.v[c].z = [num |-> pt.b, den |-> 1]

\* Black, then a red at distance exactly 4 which opens a second cluster at
\* threshold 4, then a red at distance 3 of the first and 1 of the second,
\* which joins the first.
C21_Witness ==
  /\ Clustered
  /\ call.clusterThreshold = 4
  /\ Len(out.v) = 2
  /\ [k \in 1..Len(out.v[1].products) |-> out.v[1].products[k].hex]
       = << <<"#","0","0","0","0","0","0">>, <<"#","0","3","0","0","0","0">> >>
  /\ [k \in 1..Len(out.v[2].products) |-> out.v[2].products[k].hex]
       = << <<"#","0","4","0","0","0","0">> >>

\* C22: the centroid of each cluster is the arithmetic mean of the points of
\* its members, and so each of its coordinates lies in 0..255.
C22_CentroidIsMeanOfMembers ==
  Clustered =>
    \A c \in 1..Len(out.v) :
      LET members == out.v[c].products
          n == Len(members)
      IN /\ out.v[c].x.num * n = SumR(members) * out.v[c].x.den
         /\ out.v[c].y.num * n = SumG(members) * out.v[c].y.den
         /\ out.v[c].z.num * n = SumB(members) * out.v[c].z.den
         /\ \A m \in {out.v[c].x, out.v[c].y, out.v[c].z} :
              m.den > 0 /\ 0 <= m.num /\ m.num <= 255 * m.den

\* A cluster of three members of three different colors.
C22_Witness ==
  /\ Clustered
  /\ \E c \in 1..Len(out.v) :
       /\ Len(out.v[c].products) = 3
       /\ Cardinality({out.v[c].products[k].hex : k \in 1..3}) = 3

\* The breakpoints of the levels of detail and the threshold of each band of
\* distances, from the nearest band to the farthest.
Breakpoints == {300, 500, 800}

BandOf(d) == Cardinality({b \in Breakpoints : d > b})

BandThresholds == <<4, 15, 30, 45>>

\* C23: the stored threshold changes only at a frame whose distance lies in
\* another band than the one of the stored threshold; a frame whose distance
\* lies in the band of the stored threshold leaves it as it is and recomputes
\* nothing; and the clusters shown are those of a full computation on the
\* current collection, visible ids and threshold, made anew whenever one of
\* the three has changed.
C23_ThresholdFollowsBands ==
  /\ clusterThreshold # lastEvent.threshold =>
       /\ lastEvent.kind = "frame"
       /\ clusterThreshold = BandThresholds[BandOf(dist) + 1]
       /\ lastEvent.recomputed
  /\ lastEvent.kind = "frame" /\ BandThresholds[BandOf(dist) + 1] = lastEvent.threshold =>
       /\ clusterThreshold = lastEvent.threshold
       /\ ~lastEvent.recomputed
  /\ lastEvent.kind = "props" => lastEvent.recomputed
  /\ memo.nodes = renderNodes(sceneProps.allProducts, sceneProps.visibleProductIds,
                              clusterThreshold)

\* A frame at a distance of at most 300 has changed the threshold to 4, and
\* the two near blacks, one cluster before, are two clusters now.
C23_Witness ==
  /\ lastEvent.kind = "frame"
  /\ lastEvent.threshold = 15
  /\ clusterThreshold = 4
  /\ lastEvent.recomputed
  /\ Len(memo.nodes) = 3

\* A field value that counts as absent: undefined, null, the empty string
\* and the text "null".
AbsentValue(v) ==
  \/ v.t \in {"undef", "null"}
  \/ v.t = "str" /\ v.s \in {<<>>, <<"n","u","l","l">>}

\* C24: the transmission distance is the text of the transmission_distance
\* field when that field is present, else the text of the td field when that
\* one is present, else null, where undefined, null, the empty string and the
\* text "null" count as absent; it is never the string "null" nor the empty
\* string.
C24_TransmissionDistanceResolved ==
  call.fn = "td" /\ out # NoResult =>
    LET a == Get(call.item, "transmission_distance")
        b == Get(call.item, "td")
    IN /\ out.v = IF ~AbsentValue(a) THEN JStr(a.s)
                  ELSE IF ~AbsentValue(b) THEN JStr(b.s)
                  ELSE JNull
       /\ out.v \notin {JStr(<<>>), JStr(<<"n","u","l","l">>)}

\* The number of records examined since the loop last yielded (since its
\* start when it has not yielded).
SinceYield ==
  LET yields == {k \in 1..Len(trace) :
                   trace[k].e = "onProgress" /\ trace[k].status = "Loaded colors..."}
      last == IF yields = {} THEN 0 ELSE CHOOSE k \in yields : \A m \in yields : m <= k
  IN Cardinality({k \in (last + 1)..Len(trace) : trace[k].e = "item"})

\* C25: the loop yields to the scheduler at bounded intervals: never more
\* than a batch of records is processed without a yield, whatever the records
\* are.
C25_YieldsWithinBatch == SinceYield <= BatchSize

\* The categories of the products that have arrived in the run.
SeenCategories == {arrived[k].category : k \in 1..Len(arrived)}

\* C26: a category is selected automatically only the first time a product
\* of it is seen in a run: the arrival of a product of a category seen
\* before leaves the selection as it is, also when the user has deselected
\* that category in the meantime.
C26_AutoSelectOnlyFirstSeen ==
  [][(/\ Len(arrived') = Len(arrived) + 1
      /\ arrived'[Len(arrived')].category \in SeenCategories)
     => selectedCategories' = selectedCategories]_vars

\* C27: whenever fetchPolymakerData raises, no call of onProductFound was
\* made in that run, so a failed run leaves the product collection empty and
\* the condition of the error overlay holds: not loading, an error set, no
\* product.
C27_FailedRunShowsOverlay ==
  pc = "raised" =>
    /\ EmittedProducts = <<>>
    /\ products = <<>>
    /\ ~loading
    /\ error # NoError

C29_HoverCancelsPendingClears ==
  pointerOn \in HoverNodes =>
    /\ pendingTimers = {}
    /\ hoveredProducts = pointerOn

\* ------------------------------------------------------------------
\* Specification
\* ------------------------------------------------------------------

Next ==
  \/ Start
  \/ \E s \in StrategyIds : FetchRejects(s)
  \/ \E s \in StrategyIds : TimerExpires(s)
  \/ \E s \in StrategyIds : \E ok \in BOOLEAN : HeadersArrive(s, ok)
  \/ \E s \in StrategyIds : BodyArrives(s)
  \/ \E s \in StrategyIds : BodyFails(s)
  \/ ProcessItem
  \/ Resume
  \/ Finish
  \/ handleRefresh

Spec == Init /\ [][Next]_vars

NextCalls ==
  \/ CallHexToRgb
  \/ CallDisplayColor
  \/ CallRenderNodes
  \/ CallFindArrayInObject
  \/ CallParseCategory
  \/ CallTdOf

SpecCalls == InitCalls /\ [][NextCalls]_vars

NextLoop ==
  \/ ProcessItem
  \/ Resume
  \/ Finish

SpecLoop == InitLoop /\ [][NextLoop]_vars

NextSelect ==
  \/ ProductArrives
  \/ handleToggleCategory
  \/ handleSelectAllCategories
  \/ handleClearAllCategories

SpecSelect == Init /\ [][NextSelect]_vars

NextRuns ==
  \/ InitialLoad
  \/ ClickRefresh
  \/ ClickTryAgain
  \/ RunEmits
  \/ RunCompletes
  \/ RunFails

SpecRuns == Init /\ [][NextRuns]_vars

NextHover ==
  \/ handlePointerOver
  \/ handlePointerOut
  \/ onPointerMissed
  \/ TooltipMouseEnter
  \/ TooltipMouseLeave
  \/ QuickView
  \/ TimerFires

SpecHover == Init /\ [][NextHover]_vars

NextScene ==
  \/ CameraMoves
  \/ Frame
  \/ PropsChange

SpecScene == Init /\ [][NextScene]_vars

====
